---- MODULE Spec2Model ----
(***************************************************************************)
(* Payment-reference lifecycle of the travel mini-app.                     *)
(*                                                                         *)
(*   _paymentStore        in-memory Map of payment references              *)
(*   initiate-payment     issues a reference (store + pay_ref cookie)      *)
(*   confirm-payment      cross-checks a payment against the ledger        *)
(*   generate-image       gates generateTravelImage on the reference       *)
(*                                                                         *)
(* Time is Date.now() in milliseconds, counted from the start of the       *)
(* process.                                                                *)
(***************************************************************************)
EXTENDS Integers, Sequences, FiniteSets, TLC

VARIABLES
  paymentReferences,  \* the Map of _paymentStore: reference -> record
  now,                \* Date.now()
  issued,             \* how many values crypto.randomUUID() has returned
  cookie,             \* the browser's pay_ref cookie
  gen,                \* generate-image requests, by slot
  conf,               \* confirm-payment requests, by slot
  consumed,           \* per reference: invocations of generateTravelImage
  confirmed,          \* references POST /confirm-payment answered success for
  lastOp,             \* the last direct store call and what it returned
  everUsed,           \* references whose record once had used = true
  client,             \* the state of the TravelAIApp component
  siwe,               \* the siwe cookie and the complete-siwe requests
  issuedAt            \* per reference: Date.now() when it was issued

vars == <<paymentReferences, now, issued, cookie, gen, conf, consumed,
          confirmed, lastOp, everUsed, client, siwe, issuedAt>>

----------------------------------------------------------------------------
(* Bounds *)

\* calls of crypto.randomUUID() followed
MaxIssue == 2

\* the clock stops here
MaxClock == 600001

\* invocations of generateTravelImage followed per reference, in the handler
\* that consumes after the upload
MaxCalls == 2

\* references issued where the validation of one confirm request is followed
\* through every transaction the portal can report
MaxValidated == 1

\* generate-image requests in flight at once: the two of the claims about
\* concurrent requests
GenSlots == {1, 2}

\* confirm-payment requests in flight at once
ConfSlots == {1}

----------------------------------------------------------------------------
(* Characters and strings *)

Hex16 == <<"0","1","2","3","4","5","6","7","8","9","a","b","c","d","e","f">>

Upper6 == <<"A","B","C","D","E","F">>

LowerHexChars == {Hex16[i] : i \in 1..16}

UpperHexChars == {Upper6[i] : i \in 1..6}

\* String.prototype.toUpperCase / toLowerCase on one character
UpperChar(c) ==
  IF \E i \in 1..6 : Hex16[10 + i] = c
    THEN Upper6[CHOOSE i \in 1..6 : Hex16[10 + i] = c]
    ELSE c

LowerChar(c) ==
  IF \E i \in 1..6 : Upper6[i] = c
    THEN Hex16[10 + CHOOSE i \in 1..6 : Upper6[i] = c]
    ELSE c

\* The strings of the model, each with its characters.  Variables hold the
\* strings; what the code does character by character is done on Chars[s].
Chars ==
  "" :>
    <<>> @@
  "11111111-aaaa-4bbb-8ccc-111111111111" :>
    <<"1","1","1","1","1","1","1","1","-","a","a","a","a","-","4","b",
    "b","b","-","8","c","c","c","-","1","1","1","1","1","1","1","1",
    "1","1","1","1">> @@
  "11111111aaaa4bbb8ccc111111111111" :>
    <<"1","1","1","1","1","1","1","1","a","a","a","a","4","b","b","b",
    "8","c","c","c","1","1","1","1","1","1","1","1","1","1","1","1">> @@
  "22222222-aaaa-4bbb-8ccc-222222222222" :>
    <<"2","2","2","2","2","2","2","2","-","a","a","a","a","-","4","b",
    "b","b","-","8","c","c","c","-","2","2","2","2","2","2","2","2",
    "2","2","2","2">> @@
  "22222222aaaa4bbb8ccc222222222222" :>
    <<"2","2","2","2","2","2","2","2","a","a","a","a","4","b","b","b",
    "8","c","c","c","2","2","2","2","2","2","2","2","2","2","2","2">> @@
  "33333333-aaaa-4bbb-8ccc-333333333333" :>
    <<"3","3","3","3","3","3","3","3","-","a","a","a","a","-","4","b",
    "b","b","-","8","c","c","c","-","3","3","3","3","3","3","3","3",
    "3","3","3","3">> @@
  "33333333aaaa4bbb8ccc333333333333" :>
    <<"3","3","3","3","3","3","3","3","a","a","a","a","4","b","b","b",
    "8","c","c","c","3","3","3","3","3","3","3","3","3","3","3","3">> @@
  "44444444-aaaa-4bbb-8ccc-444444444444" :>
    <<"4","4","4","4","4","4","4","4","-","a","a","a","a","-","4","b",
    "b","b","-","8","c","c","c","-","4","4","4","4","4","4","4","4",
    "4","4","4","4">> @@
  "44444444aaaa4bbb8ccc444444444444" :>
    <<"4","4","4","4","4","4","4","4","a","a","a","a","4","b","b","b",
    "8","c","c","c","4","4","4","4","4","4","4","4","4","4","4","4">> @@
  "11111111AAAA4BBB8CCC111111111111" :>
    <<"1","1","1","1","1","1","1","1","A","A","A","A","4","B","B","B",
    "8","C","C","C","1","1","1","1","1","1","1","1","1","1","1","1">> @@
  "not-hex" :>
    <<"n","o","t","-","h","e","x">> @@
  "0xDd2a0c0E" :>
    <<"0","x","D","d","2","a","0","c","0","E">> @@
  "0xdd2a0c0e" :>
    <<"0","x","d","d","2","a","0","c","0","e">> @@
  "0xDD2A0C0E" :>
    <<"0","x","D","D","2","A","0","C","0","E">> @@
  "0xbeef" :>
    <<"0","x","b","e","e","f">>

\* the string with these characters
Str(chars) == CHOOSE s \in DOMAIN Chars : Chars[s] = chars

toUpperCase(s) == Str([i \in 1..Len(Chars[s]) |-> UpperChar(Chars[s][i])])

\* toLowerCase of every string handled, character by character
LowerCased ==
  [s \in DOMAIN Chars |->
     Str([i \in 1..Len(Chars[s]) |-> LowerChar(Chars[s][i])])]

toLowerCase(s) == LowerCased[s]

\* the values crypto.randomUUID() returns, in the order it returns them
UUIDs ==
  <<"11111111-aaaa-4bbb-8ccc-111111111111",
    "22222222-aaaa-4bbb-8ccc-222222222222",
    "33333333-aaaa-4bbb-8ccc-333333333333",
    "44444444-aaaa-4bbb-8ccc-444444444444">>

randomUUID(k) == UUIDs[k]

\* uuid.replace(/-/g, "")
StripDashes(s) == Str(SelectSeq(Chars[s], LAMBDA c : c # "-"))

\* the reference the k-th call of POST /initiate-payment issues
IdOf == [k \in 1..MaxIssue |-> StripDashes(randomUUID(k))]

IssuableIds == {IdOf[k] : k \in 1..MaxIssue}

----------------------------------------------------------------------------
(* _paymentStore *)

maxAge == 10 * 60 * 1000

PaymentReference(reference, timestamp, used) ==
  [reference |-> reference, timestamp |-> timestamp, used |-> used]

\* variant: a sweep that deletes nothing
cleanupExpiredReferences_never(s, t) == s

\* variant: a sweep that also deletes a record of age exactly maxAge
cleanupExpiredReferences_atAge(s, t) ==
  [r \in {k \in DOMAIN s : ~(t - s[k].timestamp >= maxAge)} |-> s[r]]

\* for (const [reference, data] of entries) if (now - data.timestamp > maxAge) delete
cleanupExpiredReferences(s, t) ==
  [r \in {k \in DOMAIN s : ~(t - s[k].timestamp > maxAge)} |-> s[r]]

\* paymentReferences.set(reference, {reference, timestamp: Date.now(), used: false})
addPaymentReference(s, t, reference) ==
  [r \in DOMAIN s \cup {reference} |->
     IF r = reference THEN PaymentReference(reference, t, FALSE) ELSE s[r]]

\* variant: the lookup without its expiry branch (lines 44-48 dropped)
hasPaymentReference_noExpiry(s, t, reference) ==
  IF reference \notin DOMAIN s
    THEN [ret |-> FALSE, store |-> s]
    ELSE [ret |-> ~s[reference].used, store |-> s]

\* variant: the lookup answering true for any live record, used or not
hasPaymentReference_ignoresUsed(s, t, reference) ==
  IF reference \notin DOMAIN s
    THEN [ret |-> FALSE, store |-> s]
    ELSE IF t - s[reference].timestamp > maxAge
      THEN [ret |-> FALSE,
            store |-> [r \in DOMAIN s \ {reference} |-> s[r]]]
      ELSE [ret |-> TRUE, store |-> s]

\* variant: the lookup treating a record of age exactly maxAge as expired
hasPaymentReference_atAge(s, t, reference) ==
  IF reference \notin DOMAIN s
    THEN [ret |-> FALSE, store |-> s]
    ELSE IF t - s[reference].timestamp >= maxAge
      THEN [ret |-> FALSE,
            store |-> [r \in DOMAIN s \ {reference} |-> s[r]]]
      ELSE [ret |-> ~s[reference].used, store |-> s]

\* returns the boolean and the Map after the call (an expired record is deleted)
hasPaymentReference(s, t, reference) ==
  IF reference \notin DOMAIN s
    THEN [ret |-> FALSE, store |-> s]
    ELSE IF t - s[reference].timestamp > maxAge
      THEN [ret |-> FALSE,
            store |-> [r \in DOMAIN s \ {reference} |-> s[r]]]
      ELSE [ret |-> ~s[reference].used, store |-> s]

\* variant: marking that leaves the record as it was
markPaymentReferenceUsed_noop(s, reference) == s

\* variant: marking that sets a used record for an id the Map does not hold
markPaymentReferenceUsed_creates(s, reference) ==
  [r \in DOMAIN s \cup {reference} |->
     IF r = reference
       THEN PaymentReference(reference,
                             IF r \in DOMAIN s THEN s[r].timestamp ELSE 0,
                             TRUE)
       ELSE s[r]]

\* const data = get(reference); if (data) data.used = true
markPaymentReferenceUsed(s, reference) ==
  IF reference \in DOMAIN s
    THEN [s EXCEPT ![reference].used = TRUE]
    ELSE s

UsedRefs(s) == {r \in DOMAIN s : s[r].used}

----------------------------------------------------------------------------
(* Requests and responses *)

\* an absent string: undefined and "" alike are falsy to the code's tests
NoRef == ""

validLocations ==
  {"france", "usa", "uk", "italy", "japan", "india", "australia", "brazil", "dubai"}

\* /^[a-f0-9]{32}$/i.test(paymentReference)
RefLength == 32

MatchesReferenceFormat(s) ==
  /\ Len(Chars[s]) = RefLength
  /\ \A i \in 1..Len(Chars[s]) :
       Chars[s][i] \in LowerHexChars \cup UpperHexChars

\* the issuer's id shape: 32 lowercase hexadecimal characters
IsLowerHex32(s) ==
  /\ Len(Chars[s]) = RefLength
  /\ \A i \in 1..Len(Chars[s]) : Chars[s][i] \in LowerHexChars

IssuedIds == {IdOf[k] : k \in 1..issued}

\* a reference string a client sends that no issuer returned: the first id in
\* upper case
BadRefs == {toUpperCase(IdOf[1])}

\* a body of POST /generate-image; imageDataUrl and userIdentifier: present
GenBody(imageDataUrl, location, paymentReference, userIdentifier) ==
  [imageDataUrl |-> imageDataUrl, location |-> location,
   paymentReference |-> paymentReference, userIdentifier |-> userIdentifier]

\* the bodies the client sends after a payment, and the same with a bad reference
PaidBodies == {GenBody(TRUE, "france", r, TRUE) : r \in IssuedIds \cup BadRefs}

\* what a client can put in the body: each field present or absent, a
\* location outside the list, a reference that is no id at all or an id in
\* upper case
AnyBodies ==
  {GenBody(imageDataUrl, location, r, TRUE) :
     imageDataUrl \in BOOLEAN, location \in {"", "france", "mars"},
     r \in IssuedIds \cup BadRefs \cup {NoRef, "not-hex"}}

NoBody == [imageDataUrl |-> FALSE, location |-> "", paymentReference |-> NoRef,
           userIdentifier |-> FALSE]

\* what generateTravelImage does: resolves, or throws one of the error classes
\* the handler's catch block tells apart by message
GenOutcomes == {"ok", "not_person", "invalid_image", "no_api_key", "other"}

\* the outcomes the lifecycle is followed through
LifecycleOutcomes == {"ok", "not_person", "other"}

GenerationStatus(outcome) ==
  CASE outcome = "ok" -> 200
    [] outcome = "not_person" -> 400
    [] outcome = "invalid_image" -> 400
    [] outcome = "no_api_key" -> 500
    [] OTHER -> 500

----------------------------------------------------------------------------
(* services/geminiService: generateTravelImage and callGeminiWithRetry *)

\* String.prototype.includes
includes(s, sub) ==
  \E k \in 1..(Len(s) - Len(sub) + 1) : SubSeq(s, k, k + Len(sub) - 1) = sub

UpperLetters == "ABCDEFGHIJKLMNOPQRSTUVWXYZ"

LowerLetters == "abcdefghijklmnopqrstuvwxyz"

LowerLetter(c) ==
  IF \E k \in 1..Len(UpperLetters) : SubSeq(UpperLetters, k, k) = c
    THEN LET k == CHOOSE k \in 1..Len(UpperLetters) :
                    SubSeq(UpperLetters, k, k) = c
         IN SubSeq(LowerLetters, k, k)
    ELSE c

\* String.prototype.toLowerCase on the provider's text, character by character
RECURSIVE toLowerCaseText(_)
toLowerCaseText(s) ==
  IF Len(s) = 0 THEN ""
  ELSE LowerLetter(SubSeq(s, 1, 1)) \o toLowerCaseText(SubSeq(s, 2, Len(s)))

WhiteSpace == {" ", "\n", "\t"}

\* String.prototype.trim
RECURSIVE trim(_)
trim(s) ==
  IF Len(s) = 0 THEN ""
  ELSE IF SubSeq(s, 1, 1) \in WhiteSpace THEN trim(SubSeq(s, 2, Len(s)))
  ELSE IF SubSeq(s, Len(s), Len(s)) \in WhiteSpace
    THEN trim(SubSeq(s, 1, Len(s) - 1))
  ELSE s

maxRetries == 3

initialDelay == 1000

NoApiKeyMessage == "GEMINI_API_KEY environment variable is not set"

InvalidImageMessage ==
  "Invalid image data URL format. Expected 'data:image/...;base64,...'"

NotPersonMessage ==
  "Uploaded image is not of a person. Please upload a clear photo of yourself."

ValidationFailedMessage ==
  "Failed to validate the uploaded image. Please try again."

AllRetriesMessage == "Gemini API call failed after all retries."

\* processGeminiResponse's error for a response without image part
NoImageMessage(textResponse) ==
  "The AI model responded with text instead of an image: \""
    \o (IF textResponse = "" THEN "No text response received." ELSE textResponse)
    \o "\""

BothFailedMessage(finalErrorMessage) ==
  "The AI model failed with both original and fallback prompts. Last error: "
    \o finalErrorMessage

GenerationFailedMessage(errorMessage) ==
  "The AI model failed to generate an image. Details: " \o errorMessage

InvalidLocationMessage(location) == "Invalid location: " \o location

\* a GenerateContentResponse: its text, and whether a part carries inlineData
Response(text, image) == [text |-> text, image |-> image]

\* what the provider answers to the validation prompt
ValidationAnswers ==
  {Response(text, FALSE) : text \in {"YES", " Yes\n", "NO", "yes, a person", ""}}

\* what the provider answers to a location or fallback prompt
GenerationAnswers == {Response("", TRUE), Response("I cannot edit this photo.", FALSE)}

\* messages of the errors ai.models.generateContent rejects with
ProviderErrors ==
  {"{\"error\":{\"code\":500,\"status\":\"UNKNOWN\"}}",
   "got status: INTERNAL",
   "{\"error\":{\"code\":429,\"status\":\"RESOURCE_EXHAUSTED\"}}"}

\* variant: every error of the provider taken for an internal one
isInternalError_always(errorMessage) == TRUE

isInternalError(errorMessage) ==
  includes(errorMessage, "\"code\":500") \/ includes(errorMessage, "INTERNAL")

\* variant: every error of the primary attempt taken for the no-image error
isNoImageError_always(errorMessage) == TRUE

isNoImageError(errorMessage) ==
  includes(errorMessage, "The AI model responded with text instead of an image")

\* one call of generateTravelImage.  pc: where it is; prompt: the text part of
\* the callGeminiWithRetry call in progress; attempt: that call's loop
\* counter; delays: the delays that call has asked setTimeout for; calls: the
\* prompts of the callGeminiWithRetry calls made so far; invoked: how often
\* ai.models.generateContent was invoked with each of them; validationText:
\* the answer to the validation prompt as compared with 'yes'; errorMessage:
\* the message the attempt in progress was rejected with; primaryError: the
\* message of the error the attempt with the location prompt ended with;
\* error: the message of the error generateTravelImage throws
IdleSvc ==
  [pc |-> "idle", prompt |-> "", attempt |-> 0, delays |-> <<>>,
   calls |-> <<>>, invoked |-> <<>>, validationText |-> "",
   errorMessage |-> "", primaryError |-> "", error |-> ""]

\* callGeminiWithRetry(imagePart, {text: prompt}) is entered and invokes
\* ai.models.generateContent for the first time
StartCall(s, prompt) ==
  [s EXCEPT !.pc = "calling", !.prompt = prompt, !.attempt = 1,
            !.delays = <<>>, !.errorMessage = "",
            !.calls = Append(@, prompt), !.invoked = Append(@, 1)]

\* generateTravelImage settles: error = "" when it resolves with the image
Settle(s, error) == [s EXCEPT !.pc = "settled", !.error = error]

\* the catch block of generateTravelImage around the call in progress
Thrown(s, errorMessage) ==
  CASE s.prompt = "validation" ->
         IF includes(errorMessage, "Uploaded image is not of a person")
           THEN Settle(s, errorMessage)
           ELSE Settle(s, ValidationFailedMessage)
    [] s.prompt = "location" ->
         LET t == [s EXCEPT !.primaryError = errorMessage] IN
         IF isNoImageError(errorMessage)
           THEN StartCall(t, "fallback")
           ELSE Settle(t, GenerationFailedMessage(errorMessage))
    [] OTHER -> Settle(s, BothFailedMessage(errorMessage))

\* variant: a validation that lets every answer through
Returned_anyAnswer(s, response, location) ==
  IF s.prompt = "validation"
    THEN LET validationText == trim(toLowerCaseText(response.text))
             t == [s EXCEPT !.validationText = validationText]
         IN IF location \notin validLocations
              THEN Settle(t, InvalidLocationMessage(location))
              ELSE StartCall(t, "location")
  ELSE IF response.image
    THEN Settle(s, "")
    ELSE Thrown(s, NoImageMessage(response.text))

\* callGeminiWithRetry returned response: generateTravelImage goes on
Returned(s, response, location) ==
  IF s.prompt = "validation"
    THEN LET validationText == trim(toLowerCaseText(response.text))
             t == [s EXCEPT !.validationText = validationText]
         IN IF validationText # "yes"
              THEN Thrown(t, NotPersonMessage)
            ELSE IF location \notin validLocations
              THEN Settle(t, InvalidLocationMessage(location))
              ELSE StartCall(t, "location")
  ELSE IF response.image
    THEN Settle(s, "")
    ELSE Thrown(s, NoImageMessage(response.text))

\* the catch block of callGeminiWithRetry's loop
Rejected(s, errorMessage) ==
  LET t == [s EXCEPT !.errorMessage = errorMessage] IN
  IF isInternalError(errorMessage) /\ s.attempt < maxRetries
    THEN [t EXCEPT !.pc = "waiting",
                   !.delays = Append(@, initialDelay * 2^(s.attempt - 1))]
    ELSE Thrown(t, errorMessage)

\* the timer's promise resolves; continue: attempt++ and the loop's test
Resumed(s) ==
  IF s.attempt + 1 <= maxRetries
    THEN [s EXCEPT !.pc = "calling", !.attempt = @ + 1, !.errorMessage = "",
                   !.invoked = [@ EXCEPT ![Len(@)] = @ + 1]]
    ELSE Thrown([s EXCEPT !.attempt = @ + 1], AllRetriesMessage)

\* the catch block of the route handler tells the errors by their messages
Outcome(error) ==
  IF error = "" THEN "ok"
  ELSE IF includes(error, "Uploaded image is not of a person")
    THEN "not_person"
  ELSE IF includes(error, "Invalid image data URL format")
    THEN "invalid_image"
  ELSE IF includes(error, "GEMINI_API_KEY environment variable is not set")
    THEN "no_api_key"
  ELSE "other"

\* the component's state after mount.  pc: where handlePayment is; runs: how
\* often it was started; id: the id /api/initiate-payment returned to it;
\* log: what the current run of handlePayment has seen and sent, in order;
\* requests: the references of the /api/generate-image requests sent so far
IdleClient ==
  [pc |-> "idle", runs |-> 0, currentStep |-> "upload",
   selectedLocation |-> "france", processedImageData |-> FALSE, isPaying |-> FALSE, paymentError |-> "",
   id |-> "", paymentReference |-> "", isGenerating |-> FALSE,
   generatedImage |-> FALSE, error |-> "", log |-> <<>>, requests |-> <<>>]

----------------------------------------------------------------------------
(* POST /complete-siwe: sign in with the wallet *)

\* complete-siwe requests in flight at once
SiweSlots == {1, 2}

\* an optional value (a JSON field or a cookie that may be missing) is the
\* set of its values: {} is undefined, and !== is inequality of the sets
Undefined == {}

\* the k-th nonce GET /api/nonce creates
NonceOf == [k \in 1..MaxIssue |-> "nonce" \o ToString(k)]

\* what the caller of complete-siwe can put in the nonce field: nothing, a
\* nonce the server created, or a string of its own
RequestNonces ==
  {Undefined} \cup {{NonceOf[k]} : k \in 1..MaxIssue} \cup {{"forged"}}

IdleSiweRequest ==
  [pc |-> "idle", nonce |-> Undefined, storedNonce |-> Undefined,
   status |-> "", isValid |-> FALSE, message |-> ""]

\* jar: the browser's siwe cookie; created: nonces created so far;
\* verified: nonces a request was answered success for; req: the requests
IdleSiwe ==
  [jar |-> Undefined, created |-> 0, verified |-> {},
   req |-> [i \in SiweSlots |-> IdleSiweRequest]]

----------------------------------------------------------------------------
(* State after module load *)

\* removed: the call deleted the record of its reference
NoOp == [op |-> "none", reference |-> NoRef, ret |-> FALSE, removed |-> FALSE]

\* a generate-image request: where it is, its body, its response,
\* after: generateTravelImage had already been invoked for its reference when
\* it reached the gate, and svc: its call of generateTravelImage
IdleGen == [pc |-> "idle", body |-> NoBody, status |-> 0, error |-> "",
            after |-> FALSE, svc |-> IdleSvc]

NoCookie == [value |-> NoRef, expires |-> 0]

Init ==
  /\ paymentReferences = <<>>
  /\ now = 0
  /\ issued = 0
  /\ cookie = NoCookie
  /\ gen = [i \in GenSlots |-> IdleGen]
  /\ conf = [i \in ConfSlots |->
       [pc |-> "idle", reference |-> "", hasReferenceInMemory |-> FALSE,
        referenceMatchesCookie |-> FALSE, EXPECTED_RECIPIENT |-> "",
        status |-> 0, error |-> <<>>,
        resp |-> [ok |-> FALSE, status |-> 0,
                  tx |-> [reference |-> "", status |-> "", recipient |-> "",
                          to |-> "", amount |-> "", token_amount |-> "",
                          token |-> "", symbol |-> "", tokens |-> <<>>]]]]
  /\ consumed = [r \in IssuableIds |-> 0]
  /\ confirmed = {}
  /\ lastOp = NoOp
  /\ everUsed = {}
  /\ client = IdleClient
  /\ siwe = IdleSiwe
  /\ issuedAt = [r \in IssuableIds |-> 0]

handlerVars == <<issued, cookie, gen, conf, consumed, confirmed, client,
                 siwe, issuedAt>>

TickDeltas == {maxAge, maxAge + 1}

\* the clock advances between two calls
Tick ==
  /\ \E d \in TickDeltas : now + d <= MaxClock /\ now' = now + d
  /\ lastOp' = NoOp
  /\ UNCHANGED <<paymentReferences, everUsed, handlerVars>>

----------------------------------------------------------------------------
(* The store's exported functions called directly, with any reference *)

StoreAdd(reference) ==
  /\ paymentReferences' = addPaymentReference(paymentReferences, now, reference)
  /\ lastOp' = [NoOp EXCEPT !.op = "add", !.reference = reference]
  /\ UNCHANGED <<now, everUsed, handlerVars>>

StoreHas(reference) ==
  LET h == hasPaymentReference(paymentReferences, now, reference) IN
  /\ paymentReferences' = h.store
  /\ lastOp' = [op |-> "has", reference |-> reference, ret |-> h.ret,
                removed |-> reference \in DOMAIN paymentReferences
                              /\ reference \notin DOMAIN h.store]
  /\ UNCHANGED <<now, everUsed, handlerVars>>

StoreMarkUsed(reference) ==
  /\ paymentReferences' = markPaymentReferenceUsed(paymentReferences, reference)
  /\ lastOp' = [NoOp EXCEPT !.op = "markUsed", !.reference = reference]
  /\ everUsed' = everUsed \cup (UsedRefs(paymentReferences') \cap {reference})
  /\ UNCHANGED <<now, handlerVars>>

StoreCleanup ==
  /\ paymentReferences' = cleanupExpiredReferences(paymentReferences, now)
  /\ lastOp' = [NoOp EXCEPT !.op = "cleanup"]
  /\ UNCHANGED <<now, everUsed, handlerVars>>

StoreNext ==
  \/ \E reference \in IssuableIds : StoreAdd(reference)
  \/ \E reference \in IssuableIds : StoreHas(reference)
  \/ \E reference \in IssuableIds : StoreMarkUsed(reference)
  \/ StoreCleanup
  \/ Tick

StoreSpec == Init /\ [][StoreNext]_vars

----------------------------------------------------------------------------
(* POST /initiate-payment *)

CookieMaxAge == 60 * 10

\* the pay_ref value a request carries: the browser drops the cookie at expiry
CookieValue(c, t) == IF t < c.expires THEN c.value ELSE NoRef

\* variant: an issuer that takes the record back when res.cookies.set throws
InitiatePayment_undoOnCookieError(cookieSet) ==
  LET uuid == IdOf[issued + 1]
      swept == cleanupExpiredReferences(paymentReferences, now)
  IN
  /\ issued < MaxIssue
  /\ issued' = issued + 1
  /\ paymentReferences' = IF cookieSet
                            THEN addPaymentReference(swept, now, uuid)
                            ELSE swept
  /\ cookie' = IF cookieSet
                 THEN [value |-> uuid, expires |-> now + CookieMaxAge * 1000]
                 ELSE cookie
  /\ issuedAt' = [issuedAt EXCEPT ![uuid] = now]
  /\ UNCHANGED <<now, gen, conf, consumed, confirmed, lastOp, everUsed,
                 client, siwe>>

\* crypto.randomUUID() returns a value it has not returned before: its k-th
\* call returns randomUUID(k).
\* cookieSet = FALSE: res.cookies.set threw and the catch swallowed it.
InitiatePayment(cookieSet) ==
  LET uuid == IdOf[issued + 1] IN
  /\ issued < MaxIssue
  /\ issued' = issued + 1
  /\ paymentReferences' =
       addPaymentReference(cleanupExpiredReferences(paymentReferences, now),
                           now, uuid)
  /\ cookie' = IF cookieSet
                 THEN [value |-> uuid, expires |-> now + CookieMaxAge * 1000]
                 ELSE cookie
  /\ issuedAt' = [issuedAt EXCEPT ![uuid] = now]
  /\ UNCHANGED <<now, gen, conf, consumed, confirmed, lastOp, everUsed,
                 client, siwe>>

----------------------------------------------------------------------------
(* POST /generate-image, the handler that consumes before it generates *)

GenDone(status, error) == [pc |-> "done", status |-> status, error |-> error]

\* a request arrives; the handler awaits request.json()
GenReceive(i, body) ==
  /\ gen[i].pc \in {"idle", "done"}
  /\ \A j \in GenSlots : j < i => gen[j].pc # "idle"
  /\ gen' = [gen EXCEPT ![i] = [IdleGen EXCEPT !.pc = "parsing", !.body = body]]
  /\ UNCHANGED <<paymentReferences, now, issued, cookie, conf, consumed,
                 confirmed, lastOp, everUsed, client, siwe, issuedAt>>

\* variant: the checks without the one on the location's support
GenValidate_anyLocation(body) ==
  IF ~body.imageDataUrl \/ body.location = ""
    THEN GenDone(400, "missing_parameters")
  ELSE IF body.paymentReference = NoRef
    THEN GenDone(402, "payment_required")
  ELSE IF ~MatchesReferenceFormat(body.paymentReference)
    THEN GenDone(400, "invalid_format")
  ELSE GenDone(0, "")

\* the checks of the handler that read no state, first failure first
GenValidate(body) ==
  IF ~body.imageDataUrl \/ body.location = ""
    THEN GenDone(400, "missing_parameters")
  ELSE IF body.paymentReference = NoRef
    THEN GenDone(402, "payment_required")
  ELSE IF ~MatchesReferenceFormat(body.paymentReference)
    THEN GenDone(400, "invalid_format")
  ELSE IF body.location \notin validLocations
    THEN GenDone(400, "invalid_location")
  ELSE GenDone(0, "")

Calls(r) == IF r \in DOMAIN consumed THEN consumed[r] ELSE 0

\* variant: the gate without the mark before the await of the generation
GenGate_marksLater(i) ==
  LET body == gen[i].body
      r == body.paymentReference
      v == GenValidate(body)
      h == hasPaymentReference(
             cleanupExpiredReferences(paymentReferences, now), now, r)
  IN
  /\ gen[i].pc = "parsing"
  /\ IF v.status # 0
       THEN /\ gen' = [gen EXCEPT ![i].pc = "done", ![i].status = v.status,
                                  ![i].error = v.error]
            /\ UNCHANGED <<paymentReferences, consumed>>
     ELSE IF ~h.ret
       THEN /\ gen' = [gen EXCEPT ![i].pc = "done", ![i].status = 402,
                                  ![i].error = "invalid_reference",
                                  ![i].after = Calls(r) > 0]
            /\ paymentReferences' = h.store
            /\ UNCHANGED consumed
     ELSE /\ gen' = [gen EXCEPT ![i].pc = "generating",
                                ![i].after = Calls(r) > 0]
          /\ paymentReferences' = h.store
          /\ consumed' = [consumed EXCEPT ![r] = @ + 1]
  /\ UNCHANGED <<now, issued, cookie, conf, confirmed, lastOp, everUsed,
                 client, siwe, issuedAt>>

\* variant: the gate with the sweep ahead of the parameter checks
GenGate_sweepsFirst(i) ==
  LET body == gen[i].body
      r == body.paymentReference
      v == GenValidate(body)
      swept == cleanupExpiredReferences(paymentReferences, now)
      h == hasPaymentReference(swept, now, r)
  IN
  /\ gen[i].pc = "parsing"
  /\ IF v.status # 0
       THEN /\ gen' = [gen EXCEPT ![i].pc = "done", ![i].status = v.status,
                                  ![i].error = v.error]
            /\ paymentReferences' = swept
            /\ UNCHANGED consumed
     ELSE IF ~h.ret
       THEN /\ gen' = [gen EXCEPT ![i].pc = "done", ![i].status = 402,
                                  ![i].error = "invalid_reference",
                                  ![i].after = Calls(r) > 0]
            /\ paymentReferences' = h.store
            /\ UNCHANGED consumed
     ELSE /\ gen' = [gen EXCEPT ![i].pc = "generating",
                                ![i].after = Calls(r) > 0]
          /\ paymentReferences' = markPaymentReferenceUsed(h.store, r)
          /\ consumed' = [consumed EXCEPT ![r] = @ + 1]
  /\ UNCHANGED <<now, issued, cookie, conf, confirmed, lastOp, everUsed,
                 client, siwe, issuedAt>>

\* variant: the gate passing only a reference confirm-payment answered
\* success for
GenGate_requiresConfirm(i) ==
  LET body == gen[i].body
      r == body.paymentReference
      v == GenValidate(body)
      swept == cleanupExpiredReferences(paymentReferences, now)
      h == hasPaymentReference(swept, now, r)
  IN
  /\ gen[i].pc = "parsing"
  /\ IF v.status # 0
       THEN /\ gen' = [gen EXCEPT ![i].pc = "done", ![i].status = v.status,
                                  ![i].error = v.error]
            /\ UNCHANGED <<paymentReferences, consumed>>
     ELSE IF ~h.ret \/ r \notin confirmed
       THEN /\ gen' = [gen EXCEPT ![i].pc = "done", ![i].status = 402,
                                  ![i].error = "invalid_reference",
                                  ![i].after = Calls(r) > 0]
            /\ paymentReferences' = h.store
            /\ UNCHANGED consumed
     ELSE /\ gen' = [gen EXCEPT ![i].pc = "generating",
                                ![i].after = Calls(r) > 0]
          /\ paymentReferences' = markPaymentReferenceUsed(h.store, r)
          /\ consumed' = [consumed EXCEPT ![r] = @ + 1]
  /\ UNCHANGED <<now, issued, cookie, conf, confirmed, lastOp, everUsed,
                 client, siwe, issuedAt>>

\* from the end of request.json() to the await of generateTravelImage, in one
\* turn of the event loop
GenGate(i) ==
  LET body == gen[i].body
      r == body.paymentReference
      v == GenValidate(body)
      swept == cleanupExpiredReferences(paymentReferences, now)
      h == hasPaymentReference(swept, now, r)
  IN
  /\ gen[i].pc = "parsing"
  /\ IF v.status # 0
       THEN /\ gen' = [gen EXCEPT ![i].pc = "done", ![i].status = v.status,
                                  ![i].error = v.error]
            /\ UNCHANGED <<paymentReferences, consumed>>
     ELSE IF ~h.ret
       THEN /\ gen' = [gen EXCEPT ![i].pc = "done", ![i].status = 402,
                                  ![i].error = "invalid_reference",
                                  ![i].after = Calls(r) > 0]
            /\ paymentReferences' = h.store
            /\ UNCHANGED consumed
     ELSE /\ gen' = [gen EXCEPT ![i].pc = "generating",
                                ![i].after = Calls(r) > 0]
          /\ paymentReferences' = markPaymentReferenceUsed(h.store, r)
          /\ consumed' = [consumed EXCEPT ![r] = @ + 1]
  /\ UNCHANGED <<now, issued, cookie, conf, confirmed, lastOp, everUsed,
                 client, siwe, issuedAt>>

\* generateTravelImage settles; the handler answers
GenFinish(i, outcome) ==
  /\ gen[i].pc = "generating"
  /\ gen' = [gen EXCEPT ![i].pc = "done",
                        ![i].status = GenerationStatus(outcome),
                        ![i].error = outcome]
  /\ UNCHANGED <<paymentReferences, now, issued, cookie, conf, consumed,
                 confirmed, lastOp, everUsed, client, siwe, issuedAt>>

\* generateTravelImage is entered (in the turn of the event loop in which the
\* handler calls it): the tests of the key and of the data URL, then the
\* validation call.  apiKey: GEMINI_API_KEY is set; dataUrl: imageDataUrl
\* matches /^data:(image\/\w+);base64,(.*)$/
ServiceStart(i, apiKey, dataUrl) ==
  /\ gen[i].pc = "generating" /\ gen[i].svc.pc = "idle"
  /\ gen' = [gen EXCEPT ![i].svc =
       IF ~apiKey THEN Settle(@, NoApiKeyMessage)
       ELSE IF ~dataUrl THEN Settle(@, InvalidImageMessage)
       ELSE StartCall(@, "validation")]
  /\ UNCHANGED <<paymentReferences, now, issued, cookie, conf, consumed,
                 confirmed, lastOp, everUsed, client, siwe, issuedAt>>

\* ai.models.generateContent resolves
ProviderResponds(i, response) ==
  /\ gen[i].svc.pc = "calling"
  /\ gen' = [gen EXCEPT ![i].svc = Returned(@, response, gen[i].body.location)]
  /\ UNCHANGED <<paymentReferences, now, issued, cookie, conf, consumed,
                 confirmed, lastOp, everUsed, client, siwe, issuedAt>>

\* ai.models.generateContent rejects
ProviderRejects(i, errorMessage) ==
  /\ gen[i].svc.pc = "calling"
  /\ gen' = [gen EXCEPT ![i].svc = Rejected(@, errorMessage)]
  /\ UNCHANGED <<paymentReferences, now, issued, cookie, conf, consumed,
                 confirmed, lastOp, everUsed, client, siwe, issuedAt>>

\* setTimeout(resolve, delay) fires
TimerFires(i) ==
  /\ gen[i].svc.pc = "waiting"
  /\ gen' = [gen EXCEPT ![i].svc = Resumed(@)]
  /\ UNCHANGED <<paymentReferences, now, issued, cookie, conf, consumed,
                 confirmed, lastOp, everUsed, client, siwe, issuedAt>>

\* the handler's await of generateTravelImage ends; the handler answers
ServiceFinish(i) ==
  /\ gen[i].svc.pc = "settled"
  /\ GenFinish(i, Outcome(gen[i].svc.error))

----------------------------------------------------------------------------
(* POST /generate-image, the handler that consumes after the upload *)

\* the checks of that handler that read no state, first failure first
GenValidateUpload(body) ==
  IF ~body.imageDataUrl \/ body.location = "" \/ ~body.userIdentifier
    THEN GenDone(400, "missing_parameters")
  ELSE IF body.paymentReference = NoRef
    THEN GenDone(402, "payment_required")
  ELSE IF ~MatchesReferenceFormat(body.paymentReference)
    THEN GenDone(400, "invalid_format")
  ELSE IF body.location \notin validLocations
    THEN GenDone(400, "invalid_location")
  ELSE GenDone(0, "")

\* variant: the gate of this handler marking the reference before the await
\* of the generation, as the other handler does
GenGateUpload_marksAtGate(i, r2Config) ==
  LET body == gen[i].body
      r == body.paymentReference
      v == GenValidateUpload(body)
      swept == cleanupExpiredReferences(paymentReferences, now)
      h == hasPaymentReference(swept, now, r)
  IN
  /\ gen[i].pc = "parsing"
  /\ Calls(r) < MaxCalls
  /\ IF v.status # 0
       THEN /\ gen' = [gen EXCEPT ![i].pc = "done", ![i].status = v.status,
                                  ![i].error = v.error]
            /\ UNCHANGED <<paymentReferences, consumed>>
     ELSE IF ~h.ret
       THEN /\ gen' = [gen EXCEPT ![i].pc = "done", ![i].status = 402,
                                  ![i].error = "invalid_reference",
                                  ![i].after = Calls(r) > 0]
            /\ paymentReferences' = h.store
            /\ UNCHANGED consumed
     ELSE IF ~r2Config
       THEN /\ gen' = [gen EXCEPT ![i].pc = "done", ![i].status = 500,
                                  ![i].error = "storage_configuration",
                                  ![i].after = Calls(r) > 0]
            /\ paymentReferences' = h.store
            /\ UNCHANGED consumed
     ELSE /\ gen' = [gen EXCEPT ![i].pc = "generating",
                                ![i].after = Calls(r) > 0]
          /\ paymentReferences' = markPaymentReferenceUsed(h.store, r)
          /\ consumed' = [consumed EXCEPT ![r] = @ + 1]
  /\ UNCHANGED <<now, issued, cookie, conf, confirmed, lastOp, everUsed,
                 client, siwe, issuedAt>>

\* from the end of request.json() to the await of generateTravelImage;
\* r2Config: what validateR2Config() returns
GenGateUpload(i, r2Config) ==
  LET body == gen[i].body
      r == body.paymentReference
      v == GenValidateUpload(body)
      swept == cleanupExpiredReferences(paymentReferences, now)
      h == hasPaymentReference(swept, now, r)
  IN
  /\ gen[i].pc = "parsing"
  /\ Calls(r) < MaxCalls
  /\ IF v.status # 0
       THEN /\ gen' = [gen EXCEPT ![i].pc = "done", ![i].status = v.status,
                                  ![i].error = v.error]
            /\ UNCHANGED <<paymentReferences, consumed>>
     ELSE IF ~h.ret
       THEN /\ gen' = [gen EXCEPT ![i].pc = "done", ![i].status = 402,
                                  ![i].error = "invalid_reference",
                                  ![i].after = Calls(r) > 0]
            /\ paymentReferences' = h.store
            /\ UNCHANGED consumed
     ELSE IF ~r2Config
       THEN /\ gen' = [gen EXCEPT ![i].pc = "done", ![i].status = 500,
                                  ![i].error = "storage_configuration",
                                  ![i].after = Calls(r) > 0]
            /\ paymentReferences' = h.store
            /\ UNCHANGED consumed
     ELSE /\ gen' = [gen EXCEPT ![i].pc = "generating",
                                ![i].after = Calls(r) > 0]
          /\ paymentReferences' = h.store
          /\ consumed' = [consumed EXCEPT ![r] = @ + 1]
  /\ UNCHANGED <<now, issued, cookie, conf, confirmed, lastOp, everUsed,
                 client, siwe, issuedAt>>

\* generateTravelImage settles; the handler answers or awaits the upload
GenGenerated(i, outcome) ==
  /\ gen[i].pc = "generating"
  /\ gen' = IF outcome = "ok"
              THEN [gen EXCEPT ![i].pc = "uploading"]
              ELSE [gen EXCEPT ![i].pc = "done",
                               ![i].status = GenerationStatus(outcome),
                               ![i].error = outcome]
  /\ UNCHANGED <<paymentReferences, now, issued, cookie, conf, consumed,
                 confirmed, lastOp, everUsed, client, siwe, issuedAt>>

\* uploadGeneratedImage resolves (it never rejects); on success the handler
\* marks the reference used and answers 200
GenUploaded(i, success) ==
  /\ gen[i].pc = "uploading"
  /\ IF success
       THEN /\ paymentReferences' =
                 markPaymentReferenceUsed(paymentReferences,
                                          gen[i].body.paymentReference)
            /\ gen' = [gen EXCEPT ![i].pc = "done", ![i].status = 200,
                                  ![i].error = "ok"]
       ELSE /\ gen' = [gen EXCEPT ![i].pc = "done", ![i].status = 500,
                                  ![i].error = "upload_failed"]
            /\ UNCHANGED paymentReferences
  /\ UNCHANGED <<now, issued, cookie, conf, consumed, confirmed, lastOp,
                 everUsed, client, siwe, issuedAt>>

----------------------------------------------------------------------------
(* POST /confirm-payment *)

\* process.env: the recipient address, and whether the app id and the API key
\* are set
Env(recipient, appId, apiKey) ==
  [NEXT_PUBLIC_PAYMENT_RECIPIENT_ADDRESS |-> recipient,
   NEXT_PUBLIC_WLD_APP_ID |-> appId, DEV_PORTAL_API_KEY |-> apiKey]

RecipientAddress == "0xDd2a0c0E"

GoodEnv == Env(RecipientAddress, TRUE, TRUE)

LifecycleEnvs == {GoodEnv, Env("", TRUE, TRUE)}

\* every way the three values can be set or missing
AllEnvs ==
  {Env(recipient, appId, apiKey) :
     recipient \in {"", RecipientAddress}, appId \in BOOLEAN, apiKey \in BOOLEAN}

\* tokenToDecimals(0.5, Tokens.WLD).toString()
ACCEPTED == {[symbol |-> "WLD", amount |-> "500000000000000000"]}

\* the Developer Portal's transaction: an absent field is "", which the code's
\* truthiness tests do not tell from an empty string
Tx(reference, status, recipient, to, amount, token_amount, token, symbol, tokens) ==
  [reference |-> reference, status |-> status, recipient |-> recipient,
   to |-> to, amount |-> amount, token_amount |-> token_amount,
   token |-> token, symbol |-> symbol, tokens |-> tokens]

NoTx == Tx("", "", "", "", "", "", "", "", <<>>)

PortalResponse(ok, status, tx) == [ok |-> ok, status |-> status, tx |-> tx]

PaidTx(reference, status) ==
  Tx(reference, status, toLowerCase(RecipientAddress), "", "", "", "", "",
     <<[symbol |-> "WLD", token_amount |-> "500000000000000000"]>>)

\* what the portal answers about a payment made with `reference`
LifecycleResponses(reference) ==
  {PortalResponse(FALSE, 404, NoTx),
   PortalResponse(TRUE, 200, PaidTx(reference, "mined")),
   PortalResponse(TRUE, 200, PaidTx(reference, "failed"))}

\* what the portal can report as recipient and to: neither, the configured
\* address in lower, mixed or upper case, another address, or two that differ
LedgerRecipients ==
  {<<"", "">>, <<"0xdd2a0c0e", "">>, <<"0xDD2A0C0E", "">>,
   <<"", "0xDd2a0c0E">>, <<"0xbeef", "">>, <<"", "0xbeef">>,
   <<"0xbeef", "0xdd2a0c0e">>, <<"0xdd2a0c0e", "0xbeef">>}

\* what the portal can report about token and amount
TokenInfo(amount, token_amount, token, symbol, tokens) ==
  [amount |-> amount, token_amount |-> token_amount, token |-> token,
   symbol |-> symbol, tokens |-> tokens]

HalfWLD == "500000000000000000"

LedgerTokenInfos ==
  {TokenInfo("", "", "", "", <<>>),
   TokenInfo("", "", "", "", <<[symbol |-> "WLD", token_amount |-> HalfWLD]>>),
   TokenInfo(HalfWLD, "", "WLD", "", <<>>),
   TokenInfo("", HalfWLD, "", "WLD", <<>>),
   TokenInfo(HalfWLD, "", "USDC", "", <<>>),
   TokenInfo("1", "", "WLD", "", <<>>),
   TokenInfo("", "", "USDC", "", <<>>),
   TokenInfo("1", "", "", "", <<>>),
   TokenInfo("1", "", "WLD", "", <<[symbol |-> "USDC", token_amount |-> HalfWLD]>>),
   TokenInfo("", "", "", "", <<[symbol |-> "USDC", token_amount |-> "1"],
                               [symbol |-> "WLD", token_amount |-> HalfWLD]>>)}

LedgerStatuses == {"", "pending", "mined", "failed"}

\* the transactions the portal can report for a query about `reference`
ValidationResponses(reference) ==
  {PortalResponse(TRUE, 200,
     Tx(txref, status, rcpt[1], rcpt[2], info.amount, info.token_amount,
        info.token, info.symbol, info.tokens)) :
     txref \in {reference, "not-hex"}, status \in LedgerStatuses,
     rcpt \in LedgerRecipients, info \in LedgerTokenInfos}

referenceOk(tx, reference) == tx.reference = reference

\* variant: only a mined transaction passes
statusOk_minedOnly(tx) == tx.status = "mined"

statusOk(tx) == tx.status # "failed"

\* (tx?.recipient || tx?.to)?.toLowerCase?.()
lowerRecipient(tx) ==
  toLowerCase(IF tx.recipient # "" THEN tx.recipient ELSE tx.to)

\* variant: the recipient compared as the portal spells it
recipientOk_caseSensitive(tx, EXPECTED_RECIPIENT) ==
  IF lowerRecipient(tx) # ""
    THEN (IF tx.recipient # "" THEN tx.recipient ELSE tx.to) = EXPECTED_RECIPIENT
    ELSE TRUE

recipientOk(tx, EXPECTED_RECIPIENT) ==
  IF lowerRecipient(tx) # ""
    THEN lowerRecipient(tx) = EXPECTED_RECIPIENT
    ELSE TRUE

primaryToken(tx) ==
  IF Len(tx.tokens) > 0
    THEN tx.tokens[1]
    ELSE [symbol |-> "", token_amount |-> ""]

amountCandidates(tx) ==
  {tx.amount, tx.token_amount, primaryToken(tx).token_amount} \ {""}

tokenSymbolCandidates(tx) ==
  {tx.token, tx.symbol, primaryToken(tx).symbol} \ {""}

\* variant: symbol and amount matched as a pair taken from one location
tokenOk_perPair(tx) ==
  IF tokenSymbolCandidates(tx) # {} /\ amountCandidates(tx) # {}
    THEN \E opt \in ACCEPTED :
           [symbol |-> opt.symbol, token_amount |-> opt.amount] \in
             {[symbol |-> tx.token, token_amount |-> tx.amount],
              [symbol |-> tx.symbol, token_amount |-> tx.token_amount],
              primaryToken(tx)}
    ELSE TRUE

\* tokenOk and amountOk are assigned together
tokenOk(tx) ==
  IF tokenSymbolCandidates(tx) # {} /\ amountCandidates(tx) # {}
    THEN \E opt \in ACCEPTED :
           opt.symbol \in tokenSymbolCandidates(tx)
             /\ opt.amount \in amountCandidates(tx)
    ELSE TRUE

\* variant: the amount judged by the amount candidates alone
amountOk_ownCandidates(tx) ==
  IF tokenSymbolCandidates(tx) # {} /\ amountCandidates(tx) # {}
    THEN \E opt \in ACCEPTED : opt.amount \in amountCandidates(tx)
    ELSE TRUE

amountOk(tx) == tokenOk(tx)

\* variant: the failure reason naming the first failed check only
failureReason_firstOnly(tx, reference, EXPECTED_RECIPIENT) ==
  SubSeq(
    SelectSeq(
      <<IF ~referenceOk(tx, reference) THEN "reference_mismatch" ELSE "",
        IF ~statusOk(tx) THEN "invalid_status" ELSE "",
        IF ~recipientOk(tx, EXPECTED_RECIPIENT) THEN "recipient_mismatch" ELSE "",
        IF ~tokenOk(tx) THEN "token_mismatch" ELSE "",
        IF ~amountOk(tx) THEN "amount_mismatch" ELSE "">>,
      LAMBDA tag : tag # ""),
    1, 1)

failureReason(tx, reference, EXPECTED_RECIPIENT) ==
  SelectSeq(
    <<IF ~referenceOk(tx, reference) THEN "reference_mismatch" ELSE "",
      IF ~statusOk(tx) THEN "invalid_status" ELSE "",
      IF ~recipientOk(tx, EXPECTED_RECIPIENT) THEN "recipient_mismatch" ELSE "",
      IF ~tokenOk(tx) THEN "token_mismatch" ELSE "",
      IF ~amountOk(tx) THEN "amount_mismatch" ELSE "">>,
    LAMBDA tag : tag # "")

\* variant: admission requiring the store and the cookie together
Admitted_bothRequired(reference, hasReferenceInMemory, referenceMatchesCookie) ==
  ~(reference = NoRef \/ (~hasReferenceInMemory \/ ~referenceMatchesCookie))

\* variant: admission by the cookie, whatever the store holds
Admitted_cookieOnly(reference, hasReferenceInMemory, referenceMatchesCookie) ==
  ~(reference = NoRef \/ ~referenceMatchesCookie)

\* the negation of the test that answers 'Unknown or expired reference'
Admitted(reference, hasReferenceInMemory, referenceMatchesCookie) ==
  ~(reference = NoRef \/ (~hasReferenceInMemory /\ ~referenceMatchesCookie))

\* variant: a confirmation that also marks the reference used
ConfirmStore_consumes(s, t, reference) ==
  markPaymentReferenceUsed(
    hasPaymentReference(cleanupExpiredReferences(s, t), t, reference).store,
    reference)

\* variant: a confirmation that puts the record of its reference back
ConfirmStore_restores(s, t, reference) ==
  IF reference = NoRef
    THEN cleanupExpiredReferences(s, t)
    ELSE addPaymentReference(cleanupExpiredReferences(s, t), t, reference)

\* the Map after the store calls of the handler: the sweep, then the lookup
\* when payload.reference is present
ConfirmStore(s, t, reference) ==
  IF reference = NoRef
    THEN cleanupExpiredReferences(s, t)
    ELSE hasPaymentReference(cleanupExpiredReferences(s, t), t, reference).store

\* no answer of the portal yet
NoResp == PortalResponse(FALSE, 0, NoTx)

\* a confirm-payment request: where it is, payload.reference, the two
\* admission tests, the lowercased recipient it expects, its response, and
\* resp: what the portal answered to its query
IdleConf == [pc |-> "idle", reference |-> NoRef, hasReferenceInMemory |-> FALSE,
             referenceMatchesCookie |-> FALSE, EXPECTED_RECIPIENT |-> "",
             status |-> 0, error |-> <<>>, resp |-> NoResp]

ConfDone(c, status, error) ==
  [c EXCEPT !.pc = "done", !.status = status, !.error = error,
            !.EXPECTED_RECIPIENT = ""]

\* the handler from the end of req.json() to the await of fetch: it answers,
\* or it goes on to query the portal
ConfirmAdmission(s, t, cookieFallback, reference, env) ==
  LET swept == cleanupExpiredReferences(s, t)
      hasReferenceInMemory ==
        reference # NoRef /\ hasPaymentReference(swept, t, reference).ret
      referenceMatchesCookie == reference # NoRef /\ cookieFallback = reference
      EXPECTED_RECIPIENT ==
        toLowerCase(env.NEXT_PUBLIC_PAYMENT_RECIPIENT_ADDRESS)
      c == [IdleConf EXCEPT !.reference = reference,
                            !.hasReferenceInMemory = hasReferenceInMemory,
                            !.referenceMatchesCookie = referenceMatchesCookie]
  IN
  IF ~Admitted(reference, hasReferenceInMemory, referenceMatchesCookie)
    THEN ConfDone(c, 400, <<"Unknown or expired reference">>)
  ELSE IF EXPECTED_RECIPIENT = ""
    THEN ConfDone(c, 500, <<"Server configuration error">>)
  ELSE IF ~env.NEXT_PUBLIC_WLD_APP_ID \/ ~env.DEV_PORTAL_API_KEY
    THEN ConfDone(c, 500, <<"Missing APP_ID or DEV_PORTAL_API_KEY">>)
  ELSE [c EXCEPT !.pc = "fetching", !.EXPECTED_RECIPIENT = EXPECTED_RECIPIENT]

\* variant: the validation without the recipient among its checks
ConfirmValidation_skipsRecipient(c, resp) ==
  IF ~resp.ok
    THEN ConfDone(c, 502, <<"Portal query failed", ToString(resp.status)>>)
  ELSE IF /\ referenceOk(resp.tx, c.reference)
          /\ statusOk(resp.tx)
          /\ tokenOk(resp.tx)
          /\ amountOk(resp.tx)
    THEN ConfDone(c, 200, <<>>)
  ELSE ConfDone(c, 400,
                failureReason(resp.tx, c.reference, c.EXPECTED_RECIPIENT))

\* the handler from the portal's answer to its response
ConfirmValidation(c, resp) ==
  IF ~resp.ok
    THEN ConfDone(c, 502, <<"Portal query failed", ToString(resp.status)>>)
  ELSE IF /\ referenceOk(resp.tx, c.reference)
          /\ statusOk(resp.tx)
          /\ recipientOk(resp.tx, c.EXPECTED_RECIPIENT)
          /\ tokenOk(resp.tx)
          /\ amountOk(resp.tx)
    THEN ConfDone(c, 200, <<>>)
  ELSE ConfDone(c, 400,
                failureReason(resp.tx, c.reference, c.EXPECTED_RECIPIENT))

\* one whole execution of the handler, the portal answering resp when asked
ConfirmOutcome(s, t, cookieFallback, reference, env, resp) ==
  LET c == ConfirmAdmission(s, t, cookieFallback, reference, env) IN
  IF c.pc = "done" THEN c ELSE ConfirmValidation(c, resp)

\* a request arrives with the cookie the browser holds and runs to the await
\* of fetch, in one turn of the event loop
ConfirmAdmit(i, reference, env) ==
  /\ conf[i].pc \in {"idle", "done"}
  /\ paymentReferences' = ConfirmStore(paymentReferences, now, reference)
  /\ conf' = [conf EXCEPT ![i] =
       ConfirmAdmission(paymentReferences, now, CookieValue(cookie, now),
                        reference, env)]
  /\ UNCHANGED <<now, issued, cookie, gen, consumed, confirmed, lastOp, everUsed,
                 client, siwe, issuedAt>>

\* what the handler's catch block can be handed: req.json() rejecting a body
\* that is not JSON, fetch rejecting, resp.json() rejecting
ThrownMessages == {"fetch failed", "Unexpected token"}

\* await req.json() rejects: the catch block answers 500 with e.message,
\* before any call of the store
ConfirmBadBody(i) ==
  /\ conf[i].pc \in {"idle", "done"}
  /\ conf' = [conf EXCEPT ![i] = ConfDone(IdleConf, 500, <<"Unexpected token">>)]
  /\ UNCHANGED <<paymentReferences, now, issued, cookie, gen, consumed,
                 confirmed, lastOp, everUsed, client, siwe, issuedAt>>

\* await fetch(url) or await resp.json() rejects: the catch block answers 500
\* with e.message
ConfirmThrows(i, message) ==
  /\ conf[i].pc = "fetching"
  /\ conf' = [conf EXCEPT ![i] = ConfDone(conf[i], 500, <<message>>)]
  /\ UNCHANGED <<paymentReferences, now, issued, cookie, gen, consumed,
                 confirmed, lastOp, everUsed, client, siwe, issuedAt>>

\* the payload of a request: the reference, and the status the client reports
Payload(reference, status) == [reference |-> reference, status |-> status]

PayloadStatuses == {"success", "failed", ""}

\* const { payload } = await req.json(): of the payload the handler reads the
\* reference (and the transaction id, which only names the query)
ConfirmSubmit(i, payload, env) == ConfirmAdmit(i, payload.reference, env)

\* the pay_ref values a request can carry: the Cookie header is the client's,
\* so besides the browser's cookie it can be any id the client was given
RequestCookies == {CookieValue(cookie, now)} \cup IssuedIds

\* the same step for a request carrying cookieFallback as its pay_ref cookie
ConfirmRequest(i, reference, env, cookieFallback) ==
  /\ conf[i].pc \in {"idle", "done"}
  /\ paymentReferences' = ConfirmStore(paymentReferences, now, reference)
  /\ conf' = [conf EXCEPT ![i] =
       ConfirmAdmission(paymentReferences, now, cookieFallback, reference, env)]
  /\ UNCHANGED <<now, issued, cookie, gen, consumed, confirmed, lastOp, everUsed,
                 client, siwe, issuedAt>>

\* the portal answers; the handler validates and responds.  A success response
\* clears the browser's pay_ref cookie (value "", maxAge 0).
ConfirmFinish(i, resp) ==
  /\ conf[i].pc = "fetching"
  /\ conf' = [conf EXCEPT ![i] =
       [ConfirmValidation(conf[i], resp) EXCEPT !.resp = resp]]
  /\ IF conf'[i].status = 200
       THEN /\ cookie' = NoCookie
            /\ confirmed' = confirmed \cup {conf[i].reference}
       ELSE UNCHANGED <<cookie, confirmed>>
  /\ UNCHANGED <<paymentReferences, now, issued, gen, consumed, lastOp, everUsed,
                 client, siwe, issuedAt>>

\* the request reached the call of generateTravelImage
Passed(g) ==
  \/ g.pc \in {"generating", "uploading"}
  \/ g.pc = "done" /\ g.error \in GenOutcomes \cup {"upload_failed"}

\* a step of POST /confirm-payment, for the references a client holds
ConfirmStep ==
  \/ \E i \in ConfSlots, reference \in IssuedIds \cup {NoRef},
        env \in LifecycleEnvs : ConfirmAdmit(i, reference, env)
  \/ \E i \in ConfSlots :
       \E resp \in LifecycleResponses(conf[i].reference) : ConfirmFinish(i, resp)

\* issue, confirm, generate and clock advances, interleaved in every way
Next ==
  \/ InitiatePayment(TRUE)
  \/ \E body \in PaidBodies : GenReceive(1, body)
  \/ GenGate(1)
  \/ \E outcome \in LifecycleOutcomes : GenFinish(1, outcome)
  \/ ConfirmStep
  \/ Tick

Spec == Init /\ [][Next]_vars

\* generate-image requests overlapping one another
ConcurrentNext ==
  \/ InitiatePayment(TRUE)
  \/ \E i \in GenSlots : \E body \in PaidBodies : GenReceive(i, body)
  \/ \E i \in GenSlots : GenGate(i)
  \/ \E i \in GenSlots, outcome \in LifecycleOutcomes : GenFinish(i, outcome)
  \/ Tick

ConcurrentSpec == Init /\ [][ConcurrentNext]_vars

\* the same, with the handler that consumes after the upload
UploadNext ==
  \/ InitiatePayment(TRUE)
  \/ \E i \in GenSlots : \E body \in PaidBodies : GenReceive(i, body)
  \/ \E i \in GenSlots, r2Config \in BOOLEAN : GenGateUpload(i, r2Config)
  \/ \E i \in GenSlots, outcome \in LifecycleOutcomes : GenGenerated(i, outcome)
  \/ \E i \in GenSlots, success \in BOOLEAN : GenUploaded(i, success)
  \/ Tick

UploadSpec == Init /\ [][UploadNext]_vars

\* one generate-image request at a time, with any body and any outcome of the
\* generation
GenerateNext ==
  \/ InitiatePayment(TRUE)
  \/ \E body \in AnyBodies : GenReceive(1, body)
  \/ GenGate(1)
  \/ \E outcome \in GenOutcomes : GenFinish(1, outcome)
  \/ Tick

GenerateSpec == Init /\ [][GenerateNext]_vars

\* confirm requests with any pay_ref cookie, and generate requests, interleaved
CookieNext ==
  \/ \E cookieSet \in BOOLEAN : InitiatePayment(cookieSet)
  \/ \E i \in ConfSlots, reference \in IssuedIds \cup {NoRef},
        cookieFallback \in RequestCookies :
       ConfirmRequest(i, reference, GoodEnv, cookieFallback)
  \/ \E i \in ConfSlots :
       ConfirmFinish(i, PortalResponse(TRUE, 200,
                                       PaidTx(conf[i].reference, "mined")))
  \/ \E r \in IssuedIds : GenReceive(1, GenBody(TRUE, "france", r, TRUE))
  \/ GenGate(1)
  \/ GenFinish(1, "ok")
  \/ Tick

CookieSpec == Init /\ [][CookieNext]_vars

\* what a call of generateTravelImage answers to, prompt by prompt
Answers(s) ==
  IF s.prompt = "validation" THEN ValidationAnswers ELSE GenerationAnswers

\* one generate-image request at a time, with generateTravelImage run against
\* a provider that answers or fails in every way
ServiceNext ==
  \/ InitiatePayment(TRUE)
  \/ \E body \in PaidBodies : GenReceive(1, body)
  \/ GenGate(1)
  \/ \E apiKey \in BOOLEAN, dataUrl \in BOOLEAN : ServiceStart(1, apiKey, dataUrl)
  \/ \E response \in Answers(gen[1].svc) : ProviderResponds(1, response)
  \/ \E errorMessage \in ProviderErrors : ProviderRejects(1, errorMessage)
  \/ TimerFires(1)
  \/ ServiceFinish(1)

ServiceSpec == Init /\ [][ServiceNext]_vars

\* every call of the provider settles and every timer fires
ServiceFairness ==
  /\ WF_vars(\E response \in Answers(gen[1].svc) : ProviderResponds(1, response))
  /\ WF_vars(TimerFires(1))

FairServiceSpec == ServiceSpec /\ ServiceFairness

----------------------------------------------------------------------------
(* components/TravelAIApp: the payment and generation flow of the client *)

serverVars == <<paymentReferences, now, issued, cookie, gen, conf, consumed,
                confirmed, lastOp, everUsed, siwe, issuedAt>>

\* handleFileSelect, from the choice of the file to the end of processImageFile
handleFileSelect(processed) ==
  /\ client.currentStep = "upload"
  /\ client' = IF processed
                 THEN [client EXCEPT !.error = "", !.processedImageData = TRUE,
                                     !.currentStep = "location"]
                 ELSE [client EXCEPT !.error = "Failed to process image"]
  /\ UNCHANGED serverVars

handleLocationSelect(locationId) ==
  /\ client.currentStep = "location"
  /\ client' = [client EXCEPT !.selectedLocation = locationId,
                              !.currentStep = "payment"]
  /\ UNCHANGED serverVars

\* the back button, shown at the location and the payment step
Back ==
  /\ client.currentStep \in {"location", "payment"}
  /\ client' = [client EXCEPT !.currentStep =
                  IF @ = "location" THEN "upload" ELSE "location"]
  /\ UNCHANGED serverVars

\* the finally block of handlePayment
Finally(c) == [c EXCEPT !.pc = "idle", !.isPaying = FALSE]

\* the pay button (shown at the payment step, disabled while isPaying) is
\* pressed: handlePayment up to its first await.  installed: what
\* MiniKit.isInstalled() returns
HandlePayment(installed) ==
  /\ client.currentStep = "payment" /\ ~client.isPaying
  /\ client.runs < MaxIssue
  /\ client' =
       LET c == [client EXCEPT !.isPaying = TRUE, !.paymentError = "",
                               !.runs = @ + 1, !.id = "", !.log = <<>>]
       IN IF ~installed
            THEN Finally([c EXCEPT !.paymentError =
                   "Please open this app in World App to make payment."])
            ELSE [c EXCEPT !.pc = "initiating"]
  /\ UNCHANGED serverVars

\* fetch("/api/initiate-payment") resolves and its body is read.  The server
\* issues a new id for every request: the k-th run is answered randomUUID(k)
InitiateResponds(ok) ==
  /\ client.pc = "initiating"
  /\ client' =
       IF ~ok
         THEN Finally([client EXCEPT !.paymentError =
                "Unable to initiate payment. Please try again."])
         ELSE [client EXCEPT !.pc = "paying", !.id = IdOf[client.runs],
                 !.log = Append(@, <<"initiate-payment", IdOf[client.runs]>>)]
  /\ UNCHANGED serverVars

\* MiniKit.commandsAsync.pay(payload) resolves with finalPayload.status
PayResolves(status) ==
  /\ client.pc = "paying"
  /\ client' =
       LET c == [client EXCEPT !.log = Append(@, <<"pay", status>>)] IN
       CASE status = "success" -> [c EXCEPT !.pc = "confirming"]
         [] status = "error" ->
              Finally([c EXCEPT !.paymentError =
                "Payment error: Payment failed in World App"])
         [] status = "cancelled" ->
              Finally([c EXCEPT !.paymentError =
                "Payment was cancelled. Please try again."])
         [] OTHER ->
              Finally([c EXCEPT !.paymentError =
                "Payment not completed. Please try again."])
  /\ UNCHANGED serverVars

\* handleGenerate(paymentRef) up to its await of fetch("/api/generate-image")
handleGenerate(c, paymentRef) ==
  LET refToUse == IF paymentRef # "" THEN paymentRef ELSE c.paymentReference
  IN IF ~c.processedImageData \/ refToUse = ""
       THEN c
       ELSE [c EXCEPT !.isGenerating = TRUE, !.error = "",
                      !.requests = Append(@, refToUse),
                      !.log = Append(@, <<"generate-image", refToUse>>)]

\* variant: a client content with an ok response
ConfirmAccepted_okOnly(ok, success) == ok

\* confirmRes.ok && confirm?.success
ConfirmAccepted(ok, success) == ok /\ success

BoolText(b) == IF b THEN "true" ELSE "false"

\* fetch("/api/confirm-payment") resolves and its body is read.  ok:
\* confirmRes.ok; success, error: the fields of the body
ConfirmResponds(ok, success, error) ==
  /\ client.pc = "confirming"
  /\ client' =
       LET c == [client EXCEPT !.log =
                   Append(@, <<"confirm-payment", BoolText(ok), BoolText(success)>>)]
       IN IF ConfirmAccepted(ok, success)
            THEN Finally(handleGenerate(
                   [c EXCEPT !.paymentReference = c.id, !.currentStep = "result"],
                   c.id))
          ELSE IF error # ""
            THEN Finally([c EXCEPT !.paymentError =
                   "Payment verification failed: " \o error])
            ELSE Finally([c EXCEPT !.paymentError =
                   "Payment not completed. Please try again."])
  /\ UNCHANGED serverVars

\* an awaited promise of handlePayment rejects: the catch block
HandlePaymentThrows(message) ==
  /\ client.pc \in {"initiating", "paying", "confirming"}
  /\ client' = Finally([client EXCEPT !.paymentError = message])
  /\ UNCHANGED serverVars

\* the rest of handleGenerate.  outcome: the response is ok, is not ok, or
\* the fetch or the reading of its body rejected
GenerateResponds(outcome) ==
  /\ client.isGenerating
  /\ client' =
       CASE outcome = "ok" ->
              [client EXCEPT !.generatedImage = TRUE, !.paymentReference = "",
                             !.isGenerating = FALSE]
         [] outcome = "not_ok" ->
              [client EXCEPT !.error = "Failed to generate image",
                             !.isGenerating = FALSE]
         [] OTHER ->
              [client EXCEPT !.error = "Failed to fetch",
                             !.paymentReference = "", !.isGenerating = FALSE]
  /\ UNCHANGED serverVars

resetFlow ==
  /\ client.currentStep = "result" /\ ~client.isGenerating
  /\ client' = [client EXCEPT !.processedImageData = FALSE,
                              !.generatedImage = FALSE, !.error = "",
                              !.currentStep = "upload", !.paymentError = "",
                              !.paymentReference = ""]
  /\ UNCHANGED serverVars

PayStatuses == {"success", "error", "cancelled", "pending"}

\* the client alone, against a server, a wallet and a network that answer in
\* every way
ClientNext ==
  \/ \E processed \in BOOLEAN : handleFileSelect(processed)
  \/ \E locationId \in {"france", "japan"} : handleLocationSelect(locationId)
  \/ Back
  \/ \E installed \in BOOLEAN : HandlePayment(installed)
  \/ \E ok \in BOOLEAN : InitiateResponds(ok)
  \/ \E status \in PayStatuses : PayResolves(status)
  \/ \E ok \in BOOLEAN, success \in BOOLEAN,
        error \in {"", "Unknown or expired reference"} :
       ConfirmResponds(ok, success, error)
  \/ HandlePaymentThrows("Failed to fetch")
  \/ \E outcome \in {"ok", "not_ok", "throws"} : GenerateResponds(outcome)
  \/ resetFlow

ClientSpec == Init /\ [][ClientNext]_vars

\* one generate-image request at a time to the handler that consumes after
\* the upload, with every outcome of the configuration test, the generation
\* and the upload
DeferredNext ==
  \/ InitiatePayment(TRUE)
  \/ \E body \in PaidBodies : GenReceive(1, body)
  \/ \E r2Config \in BOOLEAN : GenGateUpload(1, r2Config)
  \/ \E outcome \in GenOutcomes : GenGenerated(1, outcome)
  \/ \E success \in BOOLEAN : GenUploaded(1, success)
  \/ Tick

DeferredSpec == Init /\ [][DeferredNext]_vars

\* confirm requests for issued references, the configuration present, the
\* portal answering with any of the transactions
ValidationNext ==
  \/ issued < MaxValidated /\ InitiatePayment(TRUE)
  \/ \E i \in ConfSlots, reference \in IssuedIds, status \in PayloadStatuses :
       ConfirmSubmit(i, Payload(reference, status), GoodEnv)
  \/ \E i \in ConfSlots :
       /\ conf[i].pc = "fetching"
       /\ \E resp \in ValidationResponses(conf[i].reference) : ConfirmFinish(i, resp)
  \/ Tick

ValidationSpec == Init /\ [][ValidationNext]_vars

\* what the portal answers where the configuration and the failures of the
\* query are followed
ConfigResponses(reference) ==
  {PortalResponse(FALSE, 404, NoTx), PortalResponse(FALSE, 500, NoTx),
   PortalResponse(TRUE, 200, PaidTx(reference, "mined")),
   PortalResponse(TRUE, 200, PaidTx(reference, "failed"))}

\* confirm requests under every configuration, the query answered, refused or
\* failing, and requests whose body cannot be parsed
ConfigNext ==
  \/ InitiatePayment(TRUE)
  \/ \E i \in ConfSlots, reference \in IssuedIds \cup {NoRef}, env \in AllEnvs :
       ConfirmAdmit(i, reference, env)
  \/ \E i \in ConfSlots :
       \E resp \in ConfigResponses(conf[i].reference) : ConfirmFinish(i, resp)
  \/ \E i \in ConfSlots : ConfirmBadBody(i)
  \/ \E i \in ConfSlots, message \in ThrownMessages : ConfirmThrows(i, message)
  \/ Tick

ConfigSpec == Init /\ [][ConfigNext]_vars

----------------------------------------------------------------------------
(* POST /complete-siwe: the handler *)

siweFrame == <<paymentReferences, now, issued, cookie, gen, conf, consumed,
               confirmed, lastOp, everUsed, client, issuedAt>>

\* NextResponse.json({status, isValid, message}) ends request i
SiweRespond(r, status, isValid, message) ==
  [r EXCEPT !.pc = "done", !.status = status, !.isValid = isValid,
            !.message = message]

\* the landing page fetches /api/nonce: the server creates a nonce, returns
\* it and stores it in the siwe cookie
GetNonce ==
  /\ siwe.created < MaxIssue
  /\ siwe' = [siwe EXCEPT !.created = @ + 1,
                          !.jar = {NonceOf[siwe.created + 1]}]
  /\ UNCHANGED siweFrame

\* a request arrives with the browser's cookies and a body that is JSON:
\* the handler as far as its await of verifySiweMessage
SiweReceive(i, nonce) ==
  /\ siwe.req[i].pc \in {"idle", "done"}
  /\ siwe' =
       LET storedNonce == siwe.jar
           r == [IdleSiweRequest EXCEPT !.nonce = nonce,
                                        !.storedNonce = storedNonce]
       IN [siwe EXCEPT !.req[i] =
             IF nonce # storedNonce
               THEN SiweRespond(r, "error", FALSE, "Invalid nonce")
               ELSE [r EXCEPT !.pc = "verifying"]]
  /\ UNCHANGED siweFrame

\* req.json() throws, or the body is null and cannot be destructured: the
\* catch block
SiweBadBody(i, message) ==
  /\ siwe.req[i].pc \in {"idle", "done"}
  /\ siwe' = [siwe EXCEPT !.req[i] =
       SiweRespond([IdleSiweRequest EXCEPT !.storedNonce = siwe.jar],
                   "error", FALSE, message)]
  /\ UNCHANGED siweFrame

\* variant: the cookie is kept after a successful verification
SiweVerified_keepsCookie(i, isValid) ==
  /\ siwe.req[i].pc = "verifying"
  /\ siwe' =
       IF isValid
         THEN [siwe EXCEPT
                 !.verified = @ \cup siwe.req[i].nonce,
                 !.req[i] = SiweRespond(@, "success", TRUE, "")]
         ELSE [siwe EXCEPT !.req[i] =
                 SiweRespond(@, "error", FALSE, "Invalid signature")]
  /\ UNCHANGED siweFrame

\* verifySiweMessage resolves with validMessage.isValid; on success
\* cookieStore.delete("siwe") and the browser drops the cookie
SiweVerified(i, isValid) ==
  /\ siwe.req[i].pc = "verifying"
  /\ siwe' =
       IF isValid
         THEN [siwe EXCEPT
                 !.jar = Undefined,
                 !.verified = @ \cup siwe.req[i].nonce,
                 !.req[i] = SiweRespond(@, "success", TRUE, "")]
         ELSE [siwe EXCEPT !.req[i] =
                 SiweRespond(@, "error", FALSE, "Invalid signature")]
  /\ UNCHANGED siweFrame

\* verifySiweMessage rejects: the catch block
SiweThrows(i, message) ==
  /\ siwe.req[i].pc = "verifying"
  /\ siwe' = [siwe EXCEPT !.req[i] = SiweRespond(@, "error", FALSE, message)]
  /\ UNCHANGED siweFrame

SiweErrors == {"Nonce mismatch", "Verification failed"}

\* sign-in alone: nonces are created and complete-siwe is called with every
\* nonce field, two requests at a time
SiweNext ==
  \/ GetNonce
  \/ \E i \in SiweSlots, nonce \in RequestNonces : SiweReceive(i, nonce)
  \/ \E i \in SiweSlots : SiweBadBody(i, "Unexpected token")
  \/ \E i \in SiweSlots, isValid \in BOOLEAN : SiweVerified(i, isValid)
  \/ \E i \in SiweSlots, message \in SiweErrors : SiweThrows(i, message)

SiweSpec == Init /\ [][SiweNext]_vars

\* what a client holding an issued reference can send: the image or the
\* location missing, a location outside the list, or a well-formed body
RetryBodies ==
  {GenBody(imageDataUrl, location, r, TRUE) :
     imageDataUrl \in BOOLEAN, location \in {"", "france", "mars"},
     r \in IssuedIds}

\* generate-image requests with issued references, rejected and well-formed,
\* one after another and overlapping
RetryNext ==
  \/ InitiatePayment(TRUE)
  \/ \E i \in GenSlots : \E body \in RetryBodies : GenReceive(i, body)
  \/ \E i \in GenSlots : GenGate(i)
  \/ \E i \in GenSlots, outcome \in LifecycleOutcomes : GenFinish(i, outcome)
  \/ Tick

RetrySpec == Init /\ [][RetryNext]_vars

----------------------------------------------------------------------------
(* Properties *)

RefOf(g) == g.body.paymentReference

Valid(r) == hasPaymentReference(paymentReferences, now, r).ret

\* the record of r is gone or older than maxAge
ExpiredOrAbsent(r) ==
  r \in DOMAIN paymentReferences =>
    now - paymentReferences[r].timestamp > maxAge

\* C1 (Spec).  One-time use: once generateTravelImage has been invoked for a
\* reference, hasPaymentReference is false for it ever after, and every
\* generate-image request that reaches the gate after that is answered 402 and
\* does not reach the generation.
C1_OneTimeUse ==
  /\ \A r \in IssuedIds : consumed[r] > 0 => ~Valid(r)
  /\ \A i \in GenSlots :
       gen[i].after => gen[i].pc = "done" /\ gen[i].status = 402

\* a request for a consumed reference was answered 402 while the record is
\* still in the Map
C1_Witness ==
  \E i \in GenSlots :
    /\ gen[i].after /\ gen[i].status = 402
    /\ RefOf(gen[i]) \in DOMAIN paymentReferences
    /\ consumed[RefOf(gen[i])] = 1

\* C2 (Spec).  generateTravelImage is invoked for a reference only after
\* POST /confirm-payment answered success for it.
C2_GenerationOnlyAfterConfirm ==
  \A r \in IssuedIds : consumed[r] > 0 => r \in confirmed

\* C3 (ConcurrentSpec).  Of the requests carrying one reference, handled in any
\* overlap, one at most reaches the generation and every other one that has
\* been through the gate was answered 402; and a reference is refused at the
\* gate only after another request passed with it or when its record is
\* expired or absent.
C3_ExactlyOnePasses ==
  \A i \in GenSlots :
    /\ \A j \in GenSlots \ {i} :
         (/\ RefOf(gen[j]) = RefOf(gen[i])
          /\ Passed(gen[i])
          /\ gen[j].pc \in {"generating", "done"})
           => gen[j].pc = "done" /\ gen[j].status = 402
    /\ (/\ gen[i].pc = "done"
        /\ gen[i].error = "invalid_reference"
        /\ RefOf(gen[i]) \in IssuedIds
        /\ ~gen[i].after)
         => ExpiredOrAbsent(RefOf(gen[i]))

\* one request is still generating and the other, with the same reference, was
\* refused at the gate meanwhile
C3_Witness ==
  /\ gen[1].pc = "generating"
  /\ gen[2].pc = "done" /\ gen[2].status = 402 /\ gen[2].after
  /\ RefOf(gen[2]) = RefOf(gen[1])

\* C4 (UploadSpec).  In the handler that consumes after the upload, two
\* overlapping requests with one reference never both reach the generation.
C4_UploadExactlyOnePasses ==
  \A i \in GenSlots : \A j \in GenSlots \ {i} :
    ~(/\ RefOf(gen[i]) = RefOf(gen[j])
      /\ gen[i].pc \in {"generating", "uploading"}
      /\ gen[j].pc \in {"generating", "uploading"})

\* C5 (ConcurrentSpec).  Burn on attempt: generateTravelImage is invoked at
\* most once per reference, and from the moment a request reaches the
\* generation, whatever the generation's outcome, the record of its reference
\* is used (or already swept).
C5_BurnOnAttempt ==
  /\ \A r \in IssuedIds : consumed[r] <= 1
  /\ \A i \in GenSlots :
       Passed(gen[i]) =>
         \/ RefOf(gen[i]) \notin DOMAIN paymentReferences
         \/ paymentReferences[RefOf(gen[i])].used

\* the generation threw and the record is still there, used
C5_Witness ==
  \E i \in GenSlots :
    /\ gen[i].pc = "done" /\ gen[i].status = 500 /\ gen[i].error = "other"
    /\ RefOf(gen[i]) \in DOMAIN paymentReferences
    /\ paymentReferences[RefOf(gen[i])].used
    /\ consumed[RefOf(gen[i])] = 1

\* C6 (StoreSpec).  TTL: a call of hasPaymentReference on a record older than
\* maxAge returns false, used or not, and deletes the record.
C6_TTL ==
  [][\A r \in IssuableIds :
       (/\ StoreHas(r)
        /\ r \in DOMAIN paymentReferences
        /\ now - paymentReferences[r].timestamp > maxAge)
         => (/\ lastOp'.ret = FALSE
             /\ r \notin DOMAIN paymentReferences')]_vars

\* hasPaymentReference has just deleted the expired record of a reference that
\* had been marked used
C6_Witness ==
  /\ lastOp.op = "has" /\ lastOp.removed /\ ~lastOp.ret
  /\ lastOp.reference \in everUsed
  /\ lastOp.reference \notin DOMAIN paymentReferences

\* C7 (StoreSpec).  Once a record's used flag was set for a reference,
\* hasPaymentReference is never true for that reference again.
C7_UsedNeverValidAgain ==
  \A r \in everUsed : ~Valid(r)

\* what a step may do to the Map: delete records older than maxAge
OnlyExpiredDeleted ==
  /\ DOMAIN paymentReferences' \subseteq DOMAIN paymentReferences
  /\ \A r \in DOMAIN paymentReferences' :
       paymentReferences'[r] = paymentReferences[r]
  /\ \A r \in DOMAIN paymentReferences \ DOMAIN paymentReferences' :
       now - paymentReferences[r].timestamp > maxAge

\* C8 (Spec).  Confirmation does not consume: a step of POST /confirm-payment,
\* whatever it answers, adds no record and changes none; it can only delete
\* records older than maxAge.
C8_ConfirmDoesNotConsume ==
  [][OnlyExpiredDeleted \/ ~ConfirmStep]_vars

\* a confirm answered success and the record of its reference is still unused
C8_Witness ==
  \E i \in ConfSlots :
    /\ conf[i].pc = "done" /\ conf[i].status = 200
    /\ conf[i].reference \in DOMAIN paymentReferences
    /\ ~paymentReferences[conf[i].reference].used

\* C9 (Spec).  Confirm is repeatable: when a confirm succeeds for a reference
\* that is valid in the store, the same confirm made again, with the cookie
\* cleared by the first success and the same answer of the portal, succeeds
\* too as long as the reference is still valid.
C9_ConfirmRepeatable ==
  \A reference \in IssuedIds :
    Valid(reference) =>
      \A env \in LifecycleEnvs, resp \in LifecycleResponses(reference) :
        LET first == ConfirmOutcome(paymentReferences, now,
                                    CookieValue(cookie, now), reference, env, resp)
            store1 == ConfirmStore(paymentReferences, now, reference)
        IN first.status = 200 =>
             \A t \in {now} \cup {now + d : d \in TickDeltas} :
               hasPaymentReference(store1, t, reference).ret =>
                 ConfirmOutcome(store1, t, NoRef, reference, env, resp).status = 200

\* the second confirm has succeeded: admitted by the store alone, the cookie
\* having been cleared by the first (one reference issued, no time passed)
C9_Witness ==
  \E i \in ConfSlots :
    /\ conf[i].pc = "done" /\ conf[i].status = 200
    /\ conf[i].hasReferenceInMemory /\ ~conf[i].referenceMatchesCookie
    /\ issued = 1 /\ now = 0
    /\ conf[i].reference \in confirmed

\* C10 (Spec).  Format gate: a request with imageDataUrl, location and a
\* paymentReference that is not 32 lowercase hexadecimal characters is
\* answered with the invalid-format error.
C10_FormatGate ==
  \A i \in GenSlots :
    (/\ gen[i].pc \in {"generating", "done"}
     /\ gen[i].body.imageDataUrl /\ gen[i].body.location # ""
     /\ RefOf(gen[i]) # NoRef
     /\ ~IsLowerHex32(RefOf(gen[i])))
      => gen[i].pc = "done" /\ gen[i].status = 400
           /\ gen[i].error = "invalid_format"

\* C11 (GenerateSpec).  A malformed reference leaves the store untouched: a
\* request that carries imageDataUrl, location and a paymentReference that is
\* not 32 hexadecimal characters is answered with the invalid-format error,
\* and the Map after its handler ran equals the Map before: no sweep, no
\* lookup, no deletion, no change of a used flag.
C11_MalformedLeavesStore ==
  [][\A i \in GenSlots :
       (/\ gen[i].body.imageDataUrl /\ gen[i].body.location # ""
        /\ RefOf(gen[i]) # NoRef
        /\ ~MatchesReferenceFormat(RefOf(gen[i]))
        /\ GenGate(i))
       => /\ gen'[i].pc = "done" /\ gen'[i].status = 400
          /\ gen'[i].error = "invalid_format"
          /\ paymentReferences' = paymentReferences]_vars

\* a malformed reference was rejected while the Map held a record older than
\* maxAge, which a sweep would have deleted
C11_Witness ==
  \E i \in GenSlots :
    /\ gen[i].pc = "done" /\ gen[i].error = "invalid_format"
    /\ RefOf(gen[i]) = "not-hex"
    /\ \E r \in DOMAIN paymentReferences :
         now - paymentReferences[r].timestamp > maxAge

UnknownReference(c) ==
  c.status = 400 /\ c.error = <<"Unknown or expired reference">>

\* C12 (CookieSpec).  Confirm admission: a confirm request is answered 400
\* 'Unknown or expired reference' exactly when its reference is absent, or is
\* neither valid in the store nor equal to the pay_ref cookie of the request;
\* then the handler answers without querying the ledger and the cookie is not
\* cleared.  A valid reference without cookie, and a matching cookie without
\* valid reference, are each admitted.
C12_ConfirmAdmission ==
  [][\A i \in ConfSlots, reference \in IssuedIds \cup {NoRef},
        cookieFallback \in RequestCookies :
       (/\ conf'[i].reference = reference /\ gen' = gen /\ issued' = issued
        /\ ConfirmRequest(i, reference, GoodEnv, cookieFallback)) =>
         LET rejected ==
               \/ reference = NoRef
               \/ ~Valid(reference) /\ cookieFallback # reference
         IN /\ UnknownReference(conf'[i]) <=> rejected
            /\ rejected => /\ conf'[i].pc = "done"
                           /\ cookie' = cookie
                           /\ confirmed' = confirmed
            /\ ~rejected => conf'[i].pc = "fetching"]_vars

\* a request was refused for a reference whose record is in the Map, used, and
\* whose cookie is another id's
C12_Witness ==
  \E i \in ConfSlots :
    /\ conf[i].pc = "done" /\ UnknownReference(conf[i])
    /\ conf[i].reference \in DOMAIN paymentReferences
    /\ cookie.value \in IssuedIds \ {conf[i].reference}

\* a confirm request in progress or answered was admitted for r by its cookie
\* alone, the store not holding r as valid
CookieOnly(r) ==
  \E c \in ConfSlots :
    /\ conf[c].pc \in {"fetching", "done"}
    /\ conf[c].reference = r
    /\ conf[c].referenceMatchesCookie /\ ~conf[c].hasReferenceInMemory

\* C13 (CookieSpec).  The cookie is an identity check only: after a confirm
\* was admitted for a reference by a matching cookie while the store held it
\* as used, expired or not at all, a generate-image request for that reference
\* is answered 402 and generateTravelImage is not invoked.
C13_CookieIdentityOnly ==
  [][\A i \in GenSlots :
       (CookieOnly(RefOf(gen[i])) /\ GenGate(i)) =>
         /\ gen'[i].pc = "done" /\ gen'[i].status = 402
         /\ consumed' = consumed]_vars

\* a confirm admitted by its cookie alone answered success for a reference
\* that was never consumed and is gone from the Map, and the generate request
\* for it was answered 402
C13_Witness ==
  \E i \in GenSlots :
    /\ gen[i].pc = "done" /\ gen[i].status = 402
    /\ CookieOnly(RefOf(gen[i]))
    /\ \E c \in ConfSlots : conf[c].reference = RefOf(gen[i]) /\ conf[c].status = 200
    /\ RefOf(gen[i]) \notin DOMAIN paymentReferences
    /\ consumed[RefOf(gen[i])] = 0

\* the five sub-checks of a transaction against the request c
AllChecksOk(c, tx) ==
  /\ referenceOk(tx, c.reference)
  /\ statusOk(tx)
  /\ recipientOk(tx, c.EXPECTED_RECIPIENT)
  /\ tokenOk(tx)
  /\ amountOk(tx)

Answered(c) == c.pc = "done" /\ c.resp.ok

\* the tags of the failure reason of a response
Tags(c) == {c.error[k] : k \in 1..Len(c.error)}

\* C15 (ValidationSpec).  Token and amount: when the ledger's transaction
\* carries no symbol and no amount at all, neither token nor amount is
\* reported as mismatching; when it carries any symbol or any amount (token,
\* symbol, amount, token_amount at top level or in the first tokens[] entry),
\* confirm succeeds only if a symbol and an amount it carries are those of an
\* allow-listed term (WLD, the decimal string of 0.5 WLD).
C15_TokenAmountCheck ==
  \A i \in ConfSlots :
    Answered(conf[i]) =>
      LET tx == conf[i].resp.tx
          symbols == tokenSymbolCandidates(tx)
          amounts == amountCandidates(tx)
      IN /\ (symbols = {} /\ amounts = {}) =>
              Tags(conf[i]) \cap {"token_mismatch", "amount_mismatch"} = {}
         /\ (symbols \cup amounts # {} /\ conf[i].status = 200) =>
              \E opt \in ACCEPTED :
                opt.symbol \in symbols /\ opt.amount \in amounts

\* the lowercased recipient the requests of the specification expect
ExpectedRecipient == toLowerCase(GoodEnv.NEXT_PUBLIC_PAYMENT_RECIPIENT_ADDRESS)

\* the tags of the sub-checks that are false for request c and transaction tx
FailedChecks(c, tx) ==
  {t \in {"reference_mismatch", "invalid_status", "recipient_mismatch",
          "token_mismatch", "amount_mismatch"} :
     \/ t = "reference_mismatch" /\ ~referenceOk(tx, c.reference)
     \/ t = "invalid_status" /\ ~statusOk(tx)
     \/ t = "recipient_mismatch" /\ ~recipientOk(tx, ExpectedRecipient)
     \/ t = "token_mismatch" /\ ~tokenOk(tx)
     \/ t = "amount_mismatch" /\ ~amountOk(tx)}

\* C16 (ValidationSpec).  Composite failure reason: when confirm fails
\* validation, the tags of its error are exactly those of the sub-checks that
\* are false; a ledger status "failed" always gives a failure whose reason
\* contains invalid_status, whatever else matches.
C16_FailureReason ==
  \A i \in ConfSlots :
    Answered(conf[i]) =>
      LET tx == conf[i].resp.tx IN
      /\ conf[i].status = 400 =>
           /\ Tags(conf[i]) = FailedChecks(conf[i], tx)
           /\ Tags(conf[i]) # {}
      /\ tx.status = "failed" =>
           conf[i].status = 400 /\ "invalid_status" \in Tags(conf[i])

\* a confirm failed on the status alone: reference, recipient and token match
C16_Witness ==
  \E i \in ConfSlots :
    /\ Answered(conf[i]) /\ conf[i].status = 400
    /\ conf[i].resp.tx.status = "failed"
    /\ conf[i].error = <<"invalid_status">>
    /\ conf[i].resp.tx.recipient = ExpectedRecipient
    /\ Len(conf[i].resp.tx.tokens) = 1

\* the transaction passes every sub-check but the one on the status
OthersOk(c, tx) ==
  /\ referenceOk(tx, c.reference)
  /\ recipientOk(tx, ExpectedRecipient)
  /\ tokenOk(tx)
  /\ amountOk(tx)

\* C17 (ValidationSpec).  Optimistic confirmation: the status makes confirm
\* fail only when the ledger reports exactly "failed"; with no status, or
\* pending, or mined, the reason never contains invalid_status and a
\* transaction that passes the other sub-checks is confirmed.  What a request
\* does is the same whatever the status field of its payload.
C17_OptimisticStatus ==
  [][\A i \in ConfSlots :
       /\ (conf[i].pc = "fetching" /\ conf'[i].pc = "done" /\ conf'[i].resp.ok) =>
            LET tx == conf'[i].resp.tx IN
            /\ "invalid_status" \in Tags(conf'[i]) <=> tx.status = "failed"
            /\ (tx.status # "failed" /\ OthersOk(conf[i], tx)) =>
                 conf'[i].status = 200
       /\ \A status \in PayloadStatuses :
            LET reference == conf'[i].reference IN
            ConfirmSubmit(i, Payload(reference, status), GoodEnv)
              <=> ConfirmSubmit(i, Payload(reference, "success"), GoodEnv)]_vars

\* a transaction still pending, or without status, was confirmed
C17_Witness ==
  \E i \in ConfSlots :
    /\ Answered(conf[i]) /\ conf[i].status = 200
    /\ conf[i].resp.tx.status \in {"", "pending"}

\* the address the portal reports: recipient, else to
LedgerRecipient(tx) == IF tx.recipient # "" THEN tx.recipient ELSE tx.to

\* equal but for the case of the letters
SameIgnoringCase(a, b) ==
  /\ Len(Chars[a]) = Len(Chars[b])
  /\ \A k \in 1..Len(Chars[a]) :
       LowerChar(Chars[a][k]) = LowerChar(Chars[b][k])

\* C18 (ValidationSpec).  Recipient: when the ledger's transaction carries a
\* recipient (recipient, else to), the recipient check passes exactly when it
\* equals the configured recipient but for case, and confirm succeeds only
\* then; when it carries neither field the recipient check passes.
C18_RecipientCheck ==
  \A i \in ConfSlots :
    Answered(conf[i]) =>
      LET tx == conf[i].resp.tx
          same == SameIgnoringCase(LedgerRecipient(tx), RecipientAddress)
      IN IF LedgerRecipient(tx) = ""
           THEN "recipient_mismatch" \notin Tags(conf[i])
           ELSE /\ "recipient_mismatch" \in Tags(conf[i]) <=> ~same
                /\ conf[i].status = 200 => same

\* a confirm succeeded for a recipient the portal spells in upper case
C18_Witness ==
  \E i \in ConfSlots :
    /\ Answered(conf[i]) /\ conf[i].status = 200
    /\ conf[i].resp.tx.recipient = "0xDD2A0C0E"

\* the error messages that name an environment variable
NamesVariable == {<<"Missing APP_ID or DEV_PORTAL_API_KEY">>}

\* C19 (ConfigSpec).  Missing configuration is not observable in detail: a
\* confirm request admitted while the expected recipient, the app id or the
\* API key is missing is answered 500 with a message that is the same
\* whichever of them is missing and that names no variable.
C19_GenericConfigError ==
  [][\A i \in ConfSlots, reference \in IssuedIds, env \in AllEnvs \ {GoodEnv} :
       (/\ conf'[i].reference = reference
        /\ ConfirmAdmit(i, reference, env)
        /\ ~UnknownReference(conf'[i])) =>
         /\ conf'[i].pc = "done" /\ conf'[i].status = 500
         /\ conf'[i].error \notin NamesVariable
         /\ \A other \in AllEnvs \ {GoodEnv} :
              ConfirmAdmission(paymentReferences, now, CookieValue(cookie, now),
                               reference, other).error = conf'[i].error]_vars

\* the messages of the answers for a missing configuration value
ConfigErrors ==
  {<<"Server configuration error">>, <<"Missing APP_ID or DEV_PORTAL_API_KEY">>}

\* the portal answered the query of request c with a status that is not ok
Refused(c) == c.pc = "done" /\ c.resp # NoResp /\ ~c.resp.ok

\* C20 (ConfigSpec).  Status mapping of confirm: every request ends with a
\* response; its status is 200 on success, 400 for an unknown reference or a
\* failed sub-check, 500 only for a server configuration error, and 502, with
\* the upstream status in the error, for every failure of the ledger query.
C20_StatusMapping ==
  \A i \in ConfSlots :
    conf[i].pc = "done" =>
      /\ conf[i].status \in {200, 400, 500, 502}
      /\ conf[i].status = 200 =>
           Answered(conf[i]) /\ Tags(conf[i]) = {}
      /\ conf[i].status = 400 =>
           \/ UnknownReference(conf[i])
           \/ Answered(conf[i]) /\ Tags(conf[i]) # {}
      /\ conf[i].status = 500 => conf[i].error \in ConfigErrors
      /\ conf[i].status = 502 <=> Refused(conf[i])
      /\ Refused(conf[i]) =>
           conf[i].error = <<"Portal query failed", ToString(conf[i].resp.status)>>

\* C21 (GenerateSpec).  Status mapping of the handler that consumes before
\* the generation, for requests that carry imageDataUrl and location: no
\* paymentReference is answered 402; a paymentReference that is not 32
\* lowercase hexadecimal characters 400; an unsupported location 400; a
\* well-formed reference that is absent, expired or used 402; a failed
\* generation 500, except the not-a-person and invalid-image-format errors,
\* which are answered 400.
C21_GenerateStatusMapping ==
  \A i \in GenSlots :
    (gen[i].pc = "done" /\ gen[i].body.imageDataUrl
       /\ gen[i].body.location # "")
      => LET r == RefOf(gen[i])
             status == gen[i].status
         IN
         /\ r = NoRef => status = 402
         /\ (r # NoRef /\ ~IsLowerHex32(r)) => status = 400
         /\ (IsLowerHex32(r) /\ gen[i].body.location \notin validLocations)
              => status = 400
         /\ gen[i].error = "invalid_reference" => status = 402
         /\ gen[i].error \in {"no_api_key", "other"} => status = 500
         /\ gen[i].error \in {"not_person", "invalid_image"} => status = 400

\* C22 (CookieSpec).  Issuer: POST /initiate-payment issues a new id (the
\* id of its response body), adds the record of that id with used = false
\* and timestamp = now, and sets the pay_ref cookie to the same id with a
\* lifetime of 600 s; when setting the cookie fails the cookie stays as it
\* was, the request still issues the id and the record is still added.
\* Either way hasPaymentReference(id) is true right after the call.
C22_Issuer ==
  [][issued' # issued =>
       LET id == IdOf[issued'] IN
       /\ issued' = issued + 1
       /\ id \notin DOMAIN paymentReferences
       /\ id \in DOMAIN paymentReferences'
       /\ paymentReferences'[id] = PaymentReference(id, now, FALSE)
       /\ hasPaymentReference(paymentReferences', now', id).ret
       /\ \/ cookie' = [value |-> id, expires |-> now + 600 * 1000]
          \/ cookie' = cookie]_vars

\* an id was issued while setting the cookie failed: the request carries no
\* pay_ref cookie and the record of the id is in the Map, unused
C22_Witness ==
  /\ issued = 1 /\ confirmed = {} /\ cookie = NoCookie
  /\ IdOf[1] \in DOMAIN paymentReferences
  /\ hasPaymentReference(paymentReferences, now, IdOf[1]).ret

C24_SweepIdempotent ==
  [][lastOp'.op = "cleanup" =>
       /\ DOMAIN paymentReferences' =
            {r \in DOMAIN paymentReferences :
               now - paymentReferences[r].timestamp <= maxAge}
       /\ \A r \in DOMAIN paymentReferences' :
            paymentReferences'[r] = paymentReferences[r]
       /\ cleanupExpiredReferences(paymentReferences', now')
            = paymentReferences']_vars

\* a sweep has just run on a Map from which the record of a used id, older
\* than maxAge, is gone, and in which the used record of the other id, not
\* older than maxAge, is kept
C24_Witness ==
  /\ lastOp.op = "cleanup"
  /\ \E r \in everUsed : r \notin DOMAIN paymentReferences
  /\ \E r \in DOMAIN paymentReferences :
       paymentReferences[r].used
         /\ now - paymentReferences[r].timestamp <= maxAge

\* C25 (StoreSpec).  markPaymentReferenceUsed(id) for an id the Map holds no
\* record of does nothing: it returns normally, creates no record and leaves
\* every record as it was.  For an id the Map holds it sets used = true on
\* that record and changes nothing else: the record's timestamp and every
\* other record stay as they were.
C25_MarkUsedFrame ==
  [][lastOp'.op = "markUsed" =>
       LET id == lastOp'.reference IN
       IF id \notin DOMAIN paymentReferences
         THEN paymentReferences' = paymentReferences
         ELSE /\ DOMAIN paymentReferences' = DOMAIN paymentReferences
              /\ \A r \in DOMAIN paymentReferences \ {id} :
                   paymentReferences'[r] = paymentReferences[r]
              /\ paymentReferences'[id] =
                   PaymentReference(id, paymentReferences[id].timestamp, TRUE)
    ]_vars

\* markPaymentReferenceUsed has just been called for an id without record
\* while the Map held the unused record of the other id
C25_Witness ==
  /\ lastOp.op = "markUsed"
  /\ lastOp.reference \notin DOMAIN paymentReferences
  /\ \E r \in DOMAIN paymentReferences : ~paymentReferences[r].used

C27_BoundedRetry ==
  /\ [](\A i \in GenSlots :
          LET s == gen[i].svc IN
          /\ \A k \in 1..Len(s.invoked) : s.invoked[k] <= 3
          /\ s.pc = "waiting" =>
               /\ \/ includes(s.errorMessage, "\"code\":500")
                  \/ includes(s.errorMessage, "INTERNAL")
               /\ s.attempt < 3
               /\ s.delays = SubSeq(<<1000, 2000>>, 1, s.attempt)
          /\ s.pc = "calling" =>
               /\ s.delays = SubSeq(<<1000, 2000>>, 1, s.attempt - 1)
               /\ s.invoked[Len(s.invoked)] = s.attempt)
  /\ [][\A i \in GenSlots :
          LET s == gen[i].svc
              t == gen'[i].svc
              m == t.errorMessage
          IN
          (s.pc = "calling" /\ t.pc # "calling" /\ m # "")
            => IF (includes(m, "\"code\":500") \/ includes(m, "INTERNAL"))
                    /\ s.attempt < 3
                 THEN t.pc = "waiting"
                 ELSE /\ t.pc = "settled" /\ t.invoked = s.invoked
                      /\ \/ includes(t.error, m)
                         \/ t.error = ValidationFailedMessage]_vars
  /\ \A i \in {1} : (gen[i].svc.pc = "calling") ~> (gen[i].svc.pc = "settled")

\* the third attempt of a call was rejected with an internal error after
\* waits of 1000 ms and 2000 ms, and the call rethrew it
C27_Witness ==
  /\ gen[1].svc.pc = "settled"
  /\ gen[1].svc.attempt = 3
  /\ gen[1].svc.delays = <<1000, 2000>>
  /\ gen[1].svc.invoked[Len(gen[1].svc.invoked)] = 3
  /\ includes(gen[1].svc.errorMessage, "INTERNAL")
  /\ includes(gen[1].svc.error, gen[1].svc.errorMessage)

\* C28 (ServiceSpec).  Single fallback: a call of generateTravelImage makes
\* at most one callGeminiWithRetry call with the fallback prompt, and makes it
\* only when the attempt with the location prompt ended with the
\* text-instead-of-image error of processGeminiResponse.  When that attempt
\* ends with any other error generateTravelImage throws without a fallback,
\* and when the fallback attempt ends, with an image or with an error,
\* generateTravelImage settles and calls the provider no more.
C28_SingleFallback ==
  /\ [](\A i \in GenSlots :
          LET s == gen[i].svc IN
          /\ Cardinality({k \in DOMAIN s.calls : s.calls[k] = "fallback"}) <= 1
          /\ s.prompt = "fallback"
               => s.calls = <<"validation", "location", "fallback">>)
  /\ [][\A i \in GenSlots :
          LET s == gen[i].svc
              t == gen'[i].svc
          IN
          /\ (t.calls # s.calls /\ t.prompt = "fallback")
               => /\ s.prompt = "location" /\ s.pc = "calling"
                  /\ \E response \in GenerationAnswers :
                       /\ ~response.image
                       /\ t.primaryError = NoImageMessage(response.text)
          /\ (s.prompt = "location" /\ s.pc = "calling"
                /\ t.pc = "settled" /\ t.error # "")
               => /\ t.calls = s.calls
                  /\ t.primaryError \in ProviderErrors
                  /\ t.error = "The AI model failed to generate an image. Details: "
                                 \o t.primaryError
          /\ (s.prompt = "fallback" /\ s.pc = "calling"
                /\ t.pc \notin {"calling", "waiting"})
               => /\ t.pc = "settled" /\ t.calls = s.calls
                  /\ t.error # "" =>
                       includes(t.error, "both original and fallback prompts")
          /\ (s.pc = "settled" /\ t # s) => t = IdleSvc]_vars

\* the location prompt was answered with text, the fallback prompt was tried
\* once and answered with text too, and generateTravelImage threw
C28_Witness ==
  /\ gen[1].svc.pc = "settled"
  /\ gen[1].svc.calls = <<"validation", "location", "fallback">>
  /\ gen[1].svc.error =
       BothFailedMessage(NoImageMessage("I cannot edit this photo."))

\* C29 (ServiceSpec).  Person validation first: generateTravelImage sends the
\* location prompt, and then possibly the fallback prompt, only after the
\* answer to the validation prompt, lowercased and trimmed, was exactly
\* 'yes'.  Any other answer makes it throw the not-a-person error without a
\* further call of the provider; the handler answers that error with 400, and
\* by then the reference of the request is already marked used.
C29_ValidationFirst ==
  /\ [](\A i \in GenSlots :
          LET s == gen[i].svc
              r == RefOf(gen[i])
          IN
          /\ (\E k \in DOMAIN s.calls : s.calls[k] \in {"location", "fallback"})
               => s.validationText = "yes" /\ s.calls[1] = "validation"
          /\ s.pc # "idle"
               => r \in DOMAIN paymentReferences /\ paymentReferences[r].used
          /\ (gen[i].pc = "done" /\ s.error = NotPersonMessage)
               => gen[i].status = 400)
  /\ [][\A i \in GenSlots : \A response \in ValidationAnswers :
          LET s == gen[i].svc
              t == gen'[i].svc
          IN
          (s.prompt = "validation" /\ ProviderResponds(i, response))
            => IF response.text \in {"YES", " Yes\n"}
                 THEN t.pc = "calling" /\ t.prompt = "location"
                 ELSE /\ t.pc = "settled" /\ t.calls = s.calls
                      /\ t.error = "Uploaded image is not of a person. Please upload a clear photo of yourself."
       ]_vars

\* the validation prompt was answered 'yes, a person': the provider was
\* called with no other prompt, the request was answered 400 and its
\* reference is used
C29_Witness ==
  /\ gen[1].pc = "done" /\ gen[1].status = 400
  /\ gen[1].svc.validationText = "yes, a person"
  /\ gen[1].svc.calls = <<"validation">>
  /\ gen[1].svc.error = NotPersonMessage
  /\ paymentReferences[RefOf(gen[1])].used

\* C30 (ClientSpec).  Client ordering: a run of handlePayment sends the
\* /api/generate-image request for a reference only after, in this order,
\* /api/initiate-payment returned that reference, the pay command resolved
\* with status success and /api/confirm-payment answered ok with success
\* true; on every other path of handlePayment no /api/generate-image request
\* is sent; and whenever handlePayment has finished isPaying is false.
C30_ClientOrdering ==
  /\ [](/\ \A k \in DOMAIN client.log :
             client.log[k][1] = "generate-image"
               => /\ k = 4
                  /\ client.log[1] = <<"initiate-payment", client.log[k][2]>>
                  /\ client.log[2] = <<"pay", "success">>
                  /\ client.log[3] = <<"confirm-payment", "true", "true">>
        /\ client.pc = "idle" => ~client.isPaying)
  /\ [][/\ client'.requests # client.requests
             => /\ client.pc = "confirming" /\ client'.pc = "idle"
                /\ client'.requests = Append(client.requests, client.id)
                /\ client'.log[Len(client'.log)]
                     = <<"generate-image", client.id>>
        /\ (client.pc # "idle" /\ client'.pc = "idle")
             => ~client'.isPaying]_vars

\* a run of handlePayment went through initiate, pay and confirm, sent the
\* generation request for the id it was given, and finished
C30_Witness ==
  /\ client.pc = "idle" /\ ~client.isPaying /\ client.isGenerating
  /\ Len(client.log) = 4
  /\ client.log[4] = <<"generate-image", client.id>>
  /\ client.requests = <<client.id>>

----------------------------------------------------------------------------
(* C31: the client's stored reference after handleGenerate *)

\* C31: whenever handleGenerate finishes (isGenerating goes back to false),
\* after an ok response, a response that is not ok or a rejected fetch, the
\* client's paymentReference is null
C31_ClientReferenceCleared ==
  [][(client.isGenerating /\ ~client'.isGenerating)
       => client'.paymentReference = ""]_vars

----------------------------------------------------------------------------
(* C32, C33: the siwe nonce *)

C33_VerifyNeedsCookie ==
  \A i \in SiweSlots :
    LET r == siwe.req[i] IN
    /\ r.pc = "verifying"
         => (r.storedNonce # Undefined /\ r.storedNonce = r.nonce)
    /\ (r.pc # "idle" /\ r.storedNonce = Undefined)
         => /\ r.pc = "done" /\ r.status = "error" /\ ~r.isValid
            /\ r.message \in {"Invalid nonce", "Unexpected token"}

----------------------------------------------------------------------------
(* C34, C35: token and amount in confirm *)

C35_PerFieldMatching ==
  \A i \in ConfSlots :
    (conf[i].pc = "done" /\ conf[i].resp.ok) =>
      LET tx == conf[i].resp.tx
          first == IF Len(tx.tokens) > 0 THEN tx.tokens[1]
                   ELSE [symbol |-> "", token_amount |-> ""]
          symbols == {tx.token, tx.symbol, first.symbol} \ {""}
          amounts == {tx.amount, tx.token_amount, first.token_amount} \ {""}
          passed == \A k \in 1..Len(conf[i].error) :
                      conf[i].error[k] \notin {"token_mismatch", "amount_mismatch"}
      IN (symbols # {} /\ amounts # {}) =>
           (passed <=> ("WLD" \in symbols /\ "500000000000000000" \in amounts))

\* a confirm succeeded on the symbol WLD at top level and the amount of 0.5
\* WLD in a tokens[0] entry whose symbol is USDC
C35_Witness ==
  \E i \in ConfSlots :
    /\ conf[i].pc = "done" /\ conf[i].status = 200
    /\ conf[i].resp.tx.token = "WLD" /\ conf[i].resp.tx.amount = "1"
    /\ conf[i].resp.tx.tokens =
         <<[symbol |-> "USDC", token_amount |-> "500000000000000000"]>>

----------------------------------------------------------------------------
(* C36: the expiry boundary *)

\* C36: at every clock value and for every record of the Map, the sweep keeps
\* the record exactly when hasPaymentReference keeps it, which is exactly when
\* now - timestamp <= 600000 ms: a record of age exactly 10 minutes is kept by
\* both and is valid if unused; the sweep removes no record that
\* hasPaymentReference reports valid and keeps none that it would delete
C36_ExpiryBoundary ==
  \A r \in DOMAIN paymentReferences :
    LET age == now - paymentReferences[r].timestamp
        h == hasPaymentReference(paymentReferences, now, r)
        swept == cleanupExpiredReferences(paymentReferences, now)
    IN /\ r \in DOMAIN swept <=> r \in DOMAIN h.store
       /\ r \in DOMAIN swept <=> age <= 600000
       /\ h.ret <=> (age <= 600000 /\ ~paymentReferences[r].used)
       /\ h.ret => r \in DOMAIN swept
       /\ hasPaymentReference(swept, now, r).store = swept

\* hasPaymentReference has just answered true for a record of age exactly 10
\* minutes, which the sweep at the same clock value keeps too
C36_Witness ==
  /\ lastOp.op = "has" /\ lastOp.ret
  /\ lastOp.reference \in DOMAIN paymentReferences
  /\ now - paymentReferences[lastOp.reference].timestamp = 600000
  /\ lastOp.reference \in
       DOMAIN cleanupExpiredReferences(paymentReferences, now)

----------------------------------------------------------------------------
(* C37, C38: the generate-image handler and a reference not yet consumed *)

\* C37: a request with an image, a supported location and an issued
\* reference for which generateTravelImage was never invoked, reaching the
\* gate not later than 10 minutes after the reference was issued, passes: the
\* handler marks the record used and calls generateTravelImage, whatever
\* happened to other references in between
C37_HappyPath ==
  [][\A i \in GenSlots, r \in IssuedIds :
       (/\ gen[i].pc = "parsing" /\ gen'[i].pc # "parsing"
        /\ gen[i].body.imageDataUrl
        /\ gen[i].body.location \in {"france", "japan"}
        /\ gen[i].body.paymentReference = r
        /\ consumed[r] = 0
        /\ now - issuedAt[r] <= 600000)
         => (/\ gen'[i].pc = "generating"
             /\ consumed'[r] = 1
             /\ r \in DOMAIN paymentReferences'
             /\ paymentReferences'[r].used)]_vars

\* the first reference passes the gate exactly 10 minutes after it was
\* issued, never confirmed, after the second reference was issued, confirmed
\* and consumed
C37_Witness ==
  /\ gen[1].pc = "generating"
  /\ gen[1].body.paymentReference = IdOf[1]
  /\ now - issuedAt[IdOf[1]] = 600000
  /\ consumed[IdOf[1]] = 1 /\ IdOf[1] \notin confirmed
  /\ consumed[IdOf[2]] = 1 /\ IdOf[2] \in confirmed

\* C38: a request with an issued reference and no image, no location or a
\* location outside the list is answered 400 and leaves the Map and the
\* count of generations as they were; and a later request with the same
\* reference, an image and a supported location, not later than 10 minutes
\* after the issue and with no generation yet for the reference, passes the
\* gate: the record is marked used and generateTravelImage is called
C38_RejectedDoesNotConsume ==
  [][\A i \in GenSlots :
       LET body == gen[i].body
           r == body.paymentReference
       IN (gen[i].pc = "parsing" /\ gen'[i].pc # "parsing" /\ r \in IssuedIds)
            => /\ (~body.imageDataUrl \/ body.location \in {"", "mars"})
                    => /\ gen'[i].pc = "done" /\ gen'[i].status = 400
                       /\ paymentReferences' = paymentReferences
                       /\ consumed' = consumed
               /\ (/\ body.imageDataUrl /\ body.location = "france"
                   /\ consumed[r] = 0
                   /\ now - issuedAt[r] <= 600000
                   /\ \E k \in GenSlots \ {i} :
                        /\ gen[k].pc = "done" /\ gen[k].status = 400
                        /\ gen[k].body.paymentReference = r)
                    => /\ gen'[i].pc = "generating"
                       /\ consumed'[r] = 1
                       /\ r \in DOMAIN paymentReferences'
                       /\ paymentReferences'[r].used]_vars

\* a request was answered 400 for its location, and a second request with
\* the same reference and a supported location is at generateTravelImage
C38_Witness ==
  /\ gen[1].pc = "done" /\ gen[1].status = 400
  /\ gen[1].error = "invalid_location" /\ gen[1].body.location = "mars"
  /\ gen[2].pc = "generating"
  /\ gen[2].body.paymentReference = gen[1].body.paymentReference
  /\ consumed[gen[2].body.paymentReference] = 1

====
